---------------------------- MODULE Spec2Model ----------------------------
(***************************************************************************)
(* A model of the BitTorrent client of jdpolicano/BitTorrent (C).          *)
(*                                                                         *)
(* Bytes are the integers 0..255.  A byte string is a sequence of bytes.   *)
(* C pointers into the decoder's input are modelled as offsets from the    *)
(* origin of the input (0 is the first byte, Len(src) is SOURCE_END).      *)
(*                                                                         *)
(* Specifications:                                                         *)
(*   Spec         the bencode codec: decode_bencode, encode_bencode and a  *)
(*                second decode of the encoder's output                    *)
(*   SpecTorrent  torrent_file_new on a metainfo file, torrent_file_free   *)
(*   SpecTracker  decode_bencode of a metainfo file, then the request of   *)
(*                get_tracker_response                                     *)
(*   SpecUrl      url_new, then calls of url_append_query_param            *)
(*   SpecFeed     the tracker's answer handed to handle_data in chunks,    *)
(*                then the return of get_tracker_response                  *)
(*   SpecPeer     tcp_connect_inet_cstr on an address, then handshake      *)
(*   SpecBString  bstring_new, appends while they succeed, bstring_cmp     *)
(*   SpecMain     main: the command line, the file, the command            *)
(***************************************************************************)
EXTENDS Integers, Sequences, FiniteSets, TLC

(***************************************************************************)
(* Character codes used by the sources.                                    *)
(***************************************************************************)
Ch_NUL   == 0
Ch_TAB   == 9
Ch_CR    == 13
Ch_SPACE == 32
Ch_PLUS  == 43
Ch_MINUS == 45
Ch_0     == 48
Ch_9     == 57
Ch_COLON == 58
Ch_d     == 100
Ch_e     == 101
Ch_i     == 105
Ch_l     == 108

(***************************************************************************)
(* bencode.h: parser states and value kinds.                               *)
(***************************************************************************)
PARSER_SUCCESS     == 0
PARSER_ERR_PARTIAL == -1
PARSER_ERR_SYNTAX  == -2
PARSER_ERR_MEMORY  == -3

BT_INTEGER    == "INTEGER"
BT_STRING     == "STRING"
BT_LIST       == "LIST"
BT_DICTIONARY == "DICTIONARY"
BT_GARBAGE    == "garbage"     \* the type field of storage never written

(***************************************************************************)
(* What the C library does with a request for zero bytes is left to the    *)
(* implementation.  On the builds the README names (gcc on Linux, macOS)   *)
(* malloc(0) returns a unique pointer; realloc(p, 0) returns a unique      *)
(* pointer (macOS) or frees p and returns a null pointer (glibc).          *)
(***************************************************************************)
ZA_UNIQUE       == "unique"         \* realloc(p,0) gives a pointer
ZA_REALLOC_NULL == "realloc_null"   \* realloc(p,0) frees p and gives NULL
ZeroAllocs      == {ZA_UNIQUE, ZA_REALLOC_NULL}

\* a realloc call that finds no memory: it gives NULL and frees nothing
ZA_NOMEM == "nomem"

(***************************************************************************)
(* Storage that was never written (a fresh malloc block, a local variable) *)
(* holds either zero bytes (type INTEGER, null pointers, sizes 0) or       *)
(* anything at all.                                                        *)
(***************************************************************************)
UN_ZERO == "zero"
UN_JUNK == "junk"
Uninits == {UN_ZERO, UN_JUNK}

(***************************************************************************)
(* Undefined behaviour of a call on the heap, recorded on the parser:      *)
(* a free of an allocation that was freed before, or a free through a      *)
(* pointer that was never assigned.  The first one is kept.                *)
(***************************************************************************)
F_NONE   == "none"
F_DOUBLE == "double_free"
F_WILD   == "wild_free"

(***************************************************************************)
(* A decoding environment: the input bytes, the byte that lies in memory   *)
(* just after them (read when the cursor stands at SOURCE_END), the        *)
(* allocator's answer to zero-byte requests and the content of storage     *)
(* never written.                                                          *)
(***************************************************************************)
Env(src, past, za, un) == [src |-> src, past |-> past, za |-> za, un |-> un]

\* SOURCE_END(src): the offset just after the last input byte.
SOURCE_END(env) == Len(env.src)

\* SOURCE_LEFT(src): bytes between the cursor and the end.
SOURCE_LEFT(env, p) == SOURCE_END(env) - p.position

\* PARSER_OK(p)
PARSER_OK(p) == p.state = PARSER_SUCCESS

\* *ptr for a pointer into the input: inside the input it is the input's
\* byte; at SOURCE_END it is whatever memory holds there.
Deref(env, pos) == IF pos < Len(env.src) THEN env.src[pos + 1] ELSE env.past

\* parser_init: cursor at the origin, state PARSER_SUCCESS, no fault yet.
\* overread tells that the byte under the cursor was read while the cursor
\* stood at SOURCE_END or after it.
parser_init ==
    [position |-> 0, state |-> PARSER_SUCCESS, fault |-> F_NONE,
     overread |-> FALSE]

\* *p->src.position, p->src.position[0]: the read of the byte under the
\* cursor, as what it leaves on the parser
Peek(env, p) ==
    IF p.position >= SOURCE_END(env) THEN [p EXCEPT !.overread = TRUE] ELSE p

parser_set_error(p, error) == [p EXCEPT !.state = error]

parser_advance(env, p, nbytes) ==
    IF p.position + nbytes > SOURCE_END(env)
    THEN parser_set_error(p, PARSER_ERR_PARTIAL)
    ELSE [p EXCEPT !.position = p.position + nbytes]

parser_skip(env, p) ==
    IF p.position + 1 > SOURCE_END(env)
    THEN parser_set_error(p, PARSER_ERR_PARTIAL)
    ELSE [p EXCEPT !.position = p.position + 1]

parser_set_position(env, p, position) ==
    IF position < 0 \/ position > SOURCE_END(env)
    THEN parser_set_error(p, PARSER_ERR_PARTIAL)
    ELSE [p EXCEPT !.position = position]

\* source_contains: is byte c anywhere from the cursor to the end.
source_contains(env, p, c) ==
    \E k \in (p.position + 1)..Len(env.src) : env.src[k] = c

is_digit(c) == c >= Ch_0 /\ c <= Ch_9

is_bencoded_int(c) == c = Ch_i

\* isspace of the C locale, as strtol uses it.
IsSpace(c) == c = Ch_SPACE \/ (c >= Ch_TAB /\ c <= Ch_CR)

(***************************************************************************)
(* strtol(nptr, &endptr, 10): skips white space, takes an optional sign,   *)
(* then the longest run of decimal digits.  With no digit, no conversion   *)
(* is made and endptr = nptr.  The callers make sure a non-digit lies      *)
(* inside the input at or after nptr, so the scan stays inside it.         *)
(* (Digit runs of the inputs modelled are far too short to leave the       *)
(* range of long.)                                                         *)
(***************************************************************************)
RECURSIVE SkipSpaces(_, _)
SkipSpaces(env, pos) ==
    IF pos < Len(env.src) /\ IsSpace(env.src[pos + 1])
    THEN SkipSpaces(env, pos + 1) ELSE pos

RECURSIVE ScanDigits(_, _, _)
ScanDigits(env, pos, acc) ==
    IF pos < Len(env.src) /\ is_digit(env.src[pos + 1])
    THEN ScanDigits(env, pos + 1, 10 * acc + (env.src[pos + 1] - Ch_0))
    ELSE [value |-> acc, endptr |-> pos]

strtol(env, nptr) ==
    LET s     == SkipSpaces(env, nptr)
        neg   == s < Len(env.src) /\ env.src[s + 1] = Ch_MINUS
        sgn   == s < Len(env.src) /\ env.src[s + 1] \in {Ch_MINUS, Ch_PLUS}
        first == IF sgn THEN s + 1 ELSE s
        d     == ScanDigits(env, first, 0)
    IN  IF d.endptr = first
        THEN [value |-> 0, endptr |-> nptr]
        ELSE [value |-> IF neg THEN 0 - d.value ELSE d.value, endptr |-> d.endptr]

(***************************************************************************)
(* bstring.c: BString, a byte buffer that carries its length.              *)
(* chars holds the first size bytes; live is false once bstring_free has   *)
(* been applied to it.  Allocations of a non-zero size succeed.            *)
(***************************************************************************)
BSTRING_SUCCESS    == 0
BSTRING_ERR_MEMORY == -1

NoBString == [capacity |-> 0, size |-> 0, chars |-> <<>>, live |-> FALSE]

\* What a bstring call hands back: its return code, the buffer after the
\* call, the undefined behaviour it ran into, and whether it returns at all.
BRes(rc, bstr, fault, hang) ==
    [rc |-> rc, bstr |-> bstr, fault |-> fault, hang |-> hang]

\* bstring_new: an empty buffer of the capacity asked for (ok); NULL, which
\* is ~ok, only when malloc gives NULL, which it does not do here.
bstring_new(capacity) ==
    [ok |-> TRUE,
     bstr |-> [capacity |-> capacity, size |-> 0, chars |-> <<>>,
               live |-> TRUE]]

\* a variant that grows to the size asked for and no further
Doubled_Exact(capacity, new_capacity) ==
    IF capacity < new_capacity THEN new_capacity ELSE capacity

\* the loop of bstring_resize: while (capacity < new_capacity) capacity *= 2
RECURSIVE Doubled(_, _)
Doubled(capacity, new_capacity) ==
    IF capacity < new_capacity
    THEN Doubled(capacity * 2, new_capacity)
    ELSE capacity

\* the one element of a set of one element
Only(S) == CHOOSE v \in S : TRUE

(***************************************************************************)
(* bstring_resize.  With capacity 0 the doubling loop never ends.  When    *)
(* realloc gives NULL the buffer is freed (bstring_free) and the error is  *)
(* returned; after realloc(chars, 0) has freed chars, that is a second     *)
(* free of chars.                                                          *)
(***************************************************************************)
bstring_resize(za, bstr, new_capacity) ==
    IF bstr.capacity = 0 /\ new_capacity > 0
    THEN BRes(BSTRING_SUCCESS, bstr, F_NONE, TRUE)
    ELSE Only({ IF za = ZA_NOMEM
                THEN BRes(BSTRING_ERR_MEMORY, [grown EXCEPT !.live = FALSE],
                          F_NONE, FALSE)
                ELSE IF grown.capacity = 0 /\ za = ZA_REALLOC_NULL
                THEN BRes(BSTRING_ERR_MEMORY, [grown EXCEPT !.live = FALSE],
                          F_DOUBLE, FALSE)
                ELSE BRes(BSTRING_SUCCESS, grown, F_NONE, FALSE) :
                grown \in {[bstr EXCEPT
                              !.capacity = Doubled(bstr.capacity, new_capacity)]} })

\* the common shape of the append functions: resize when `full`, then copy.
AppendWith(za, bstr, full, new_capacity, bytes) ==
    Only({ IF r.hang \/ r.rc # BSTRING_SUCCESS
           THEN r
           ELSE BRes(BSTRING_SUCCESS,
                     [r.bstr EXCEPT !.chars = r.bstr.chars \o bytes,
                                    !.size = r.bstr.size + Len(bytes)],
                     F_NONE, FALSE) :
           r \in {IF full THEN bstring_resize(za, bstr, new_capacity)
                          ELSE BRes(BSTRING_SUCCESS, bstr, F_NONE, FALSE)} })

bstring_append_char(za, bstr, c) ==
    AppendWith(za, bstr, bstr.size = bstr.capacity, bstr.size + 1, <<c>>)

\* strcpy also stores the terminating zero after the bytes, inside capacity.
bstring_append_cstr(za, bstr, cstr) ==
    AppendWith(za, bstr, bstr.size + Len(cstr) >= bstr.capacity,
               bstr.size + Len(cstr) + 1, cstr)

bstring_append_bytes(za, bstr, bytes) ==
    AppendWith(za, bstr, bstr.size + Len(bytes) >= bstr.capacity,
               bstr.size + Len(bytes), bytes)

bstring_append_bstring(za, bstr, other) ==
    AppendWith(za, bstr, bstr.size + other.size >= bstr.capacity,
               bstr.size + other.size, other.chars)

\* the sign of memcmp over two byte strings of one length
RECURSIVE memcmp(_, _, _)
memcmp(a, b, k) ==
    IF k > Len(a) THEN 0
    ELSE IF a[k] # b[k] THEN a[k] - b[k]
    ELSE memcmp(a, b, k + 1)

\* bstring_cmp: the difference of the sizes when they differ, memcmp when
\* they agree.
bstring_cmp(bstr1, bstr2) ==
    IF bstr1.size # bstr2.size
    THEN bstr1.size - bstr2.size
    ELSE memcmp(bstr1.chars, bstr2.chars, 1)

\* bstring_cmp_cstr: the sizes first, the bytes only when the sizes agree.
bstring_cmp_cstr(bstr, cstr) ==
    IF bstr.size # Len(cstr)
    THEN bstr.size - Len(cstr)
    ELSE memcmp(bstr.chars, cstr, 1)

(***************************************************************************)
(* struct Bencoded.  The union is written out: integer, string, list and   *)
(* dictionary are the members, of which the code reads the one that type   *)
(* names.  string is the BString pointed to; a dictionary element is       *)
(* [key, value].  constructed tells whether the member was assigned: a     *)
(* container whose decoding failed has its type and encoded_length set     *)
(* and its member left as it was.                                          *)
(***************************************************************************)
Blank ==
    [type |-> BT_GARBAGE, encoded_length |-> 0, constructed |-> FALSE,
     integer |-> 0, string |-> NoBString, list |-> <<>>, dictionary |-> <<>>]

\* the first undefined behaviour of a call is the one recorded
Mark(p, fault) == IF p.fault = F_NONE THEN [p EXCEPT !.fault = fault] ELSE p

(***************************************************************************)
(* free_bencoded_inner and its helpers, as the fault they run into.        *)
(* A member that was never assigned holds what the storage held: with      *)
(* zero bytes a list or dictionary is (NULL, 0) and freeing it is          *)
(* harmless, a string is a null BString pointer that bstring_free          *)
(* dereferences; with anything else the free is wild.  Storage whose type  *)
(* was never written reads as INTEGER when zero.                           *)
(***************************************************************************)
bstring_free(bstr) == IF bstr.live THEN F_NONE ELSE F_DOUBLE

FirstFault(faults) ==
    IF F_DOUBLE \in faults THEN F_DOUBLE
    ELSE IF F_WILD \in faults THEN F_WILD
    ELSE F_NONE

RECURSIVE free_bencoded_inner(_, _)
free_bencoded_list_elements(un, elements) ==
    FirstFault({free_bencoded_inner(un, elements[k]) : k \in 1..Len(elements)})

free_bencoded_dict_elements(un, elements) ==
    FirstFault({bstring_free(elements[k].key) : k \in 1..Len(elements)}
               \cup {free_bencoded_inner(un, elements[k].value) :
                       k \in 1..Len(elements)})

free_bencoded_inner(un, b) ==
    IF b.type = BT_GARBAGE
    THEN (IF un = UN_ZERO THEN F_NONE ELSE F_WILD)
    ELSE IF b.type = BT_STRING
    THEN (IF b.constructed THEN bstring_free(b.string) ELSE F_WILD)
    ELSE IF b.type = BT_INTEGER
    THEN F_NONE
    ELSE IF ~b.constructed
    THEN (IF un = UN_ZERO THEN F_NONE ELSE F_WILD)
    ELSE IF b.type = BT_LIST
    THEN free_bencoded_list_elements(un, b.list)
    ELSE free_bencoded_dict_elements(un, b.dictionary)

\* free_bencoded: the inner storage, then the container itself.
free_bencoded(un, b) == free_bencoded_inner(un, b)

\* what a decoding step hands back: the parser and the container
DRes(p, c) == [p |-> p, c |-> c]

(***************************************************************************)
(* decode_bencoded_string.  The result of bstring_append_bytes is not      *)
(* looked at: the container gets the buffer whatever became of it.         *)
(***************************************************************************)
decode_bencoded_string(env, p, container) ==
    IF ~source_contains(env, p, Ch_COLON)
    THEN DRes(parser_set_error(p, PARSER_ERR_PARTIAL), container)
    ELSE
    LET n              == strtol(env, p.position)
        encoded_length == n.value
        p1             == parser_set_position(env, p, n.endptr + 1)
        made           == bstring_new(encoded_length)
        bytes          == SubSeq(env.src, p1.position + 1,
                                 p1.position + encoded_length)
        app            == bstring_append_bytes(env.za, made.bstr, bytes)
    IN  IF Deref(env, n.endptr) # Ch_COLON
        THEN DRes(parser_set_error(p, PARSER_ERR_SYNTAX), container)
        ELSE IF SOURCE_LEFT(env, p1) < encoded_length
        THEN DRes(parser_set_error(p1, PARSER_ERR_PARTIAL), container)
        ELSE IF ~made.ok
        THEN DRes(parser_set_error(p1, PARSER_ERR_MEMORY), container)
        ELSE DRes(parser_advance(env, Mark(p1, app.fault), encoded_length),
                  [container EXCEPT !.string = app.bstr,
                                    !.constructed = TRUE])

(***************************************************************************)
(* decode_bencoded_integer                                                 *)
(***************************************************************************)
decode_bencoded_integer(env, p, container) ==
    IF ~source_contains(env, p, Ch_e)
    THEN DRes(parser_set_error(p, PARSER_ERR_PARTIAL), container)
    ELSE
    LET p1 == parser_skip(env, p)
        n  == strtol(env, p1.position)
    IN  IF n.endptr = p1.position \/ Deref(env, n.endptr) # Ch_e
        THEN DRes(parser_set_error(p1, PARSER_ERR_SYNTAX), container)
        ELSE DRes(parser_set_position(env, p1, n.endptr + 1),
                  [container EXCEPT !.integer = n.value,
                                    !.constructed = TRUE])

(***************************************************************************)
(* decode_bencode_inner with decode_bencoded_list and                      *)
(* decode_bencoded_dictionary.  The arrays start with room for 64          *)
(* elements and double when full; no input modelled fills them.            *)
(* ListLoop and DictLoop are the while loops, one pass per call.           *)
(***************************************************************************)
RECURSIVE decode_bencode_inner(_, _, _)
RECURSIVE ListLoop(_, _, _, _)
RECURSIVE DictLoop(_, _, _, _)

decode_bencoded_list(env, p, container) ==
    ListLoop(env, parser_skip(env, p), container, <<>>)

ListLoop(env, at, container, elements) ==
    Only({
    IF Deref(env, p.position) # Ch_e
    THEN LET r    == decode_bencode_inner(env, p, Blank)
             upto == Append(elements, r.c)
         IN  IF ~PARSER_OK(r.p)
             THEN DRes(Mark(r.p, free_bencoded_list_elements(env.un, upto)),
                       container)
             ELSE ListLoop(env, r.p, container, upto)
    ELSE DRes(parser_skip(env, p),
              [container EXCEPT !.list = elements, !.constructed = TRUE])
    : p \in {Peek(env, at)} })

decode_bencoded_dictionary(env, p, container) ==
    DictLoop(env, parser_skip(env, p), container, <<>>)

DictLoop(env, at, container, elements) ==
    Only({
    IF Deref(env, p.position) # Ch_e
    THEN LET k == decode_bencode_inner(env, p, Blank)
             v == decode_bencode_inner(env, k.p, Blank)
         IN  IF ~PARSER_OK(k.p)
             THEN DRes(Mark(k.p, free_bencoded_dict_elements(env.un, elements)),
                       container)
             ELSE IF k.c.type # BT_STRING
             THEN DRes(Mark(parser_set_error(k.p, PARSER_ERR_SYNTAX),
                            FirstFault({free_bencoded_inner(env.un, k.c),
                                        free_bencoded_dict_elements(env.un, elements)})),
                       container)
             ELSE IF ~PARSER_OK(v.p)
             THEN DRes(Mark(v.p,
                            FirstFault({free_bencoded_inner(env.un, k.c),
                                        free_bencoded(env.un, v.c),
                                        free_bencoded_dict_elements(env.un, elements)})),
                       container)
             ELSE DictLoop(env, v.p, container,
                           Append(elements, [key |-> k.c.string, value |-> v.c]))
    ELSE DRes(parser_skip(env, p),
              [container EXCEPT !.dictionary = elements, !.constructed = TRUE])
    : p \in {Peek(env, at)} })

\* a variant that records the cursor itself, not the distance from start
Measured_FromOrigin(start, r) ==
    DRes(r.p, [r.c EXCEPT !.encoded_length = r.p.position])

\* the end of each branch of decode_bencode_inner:
\* container->encoded_length = p->src.position - start
Measured(start, r) ==
    DRes(r.p, [r.c EXCEPT !.encoded_length = r.p.position - start])

decode_bencode_inner(env, at, container) ==
    IF ~PARSER_OK(at)
    THEN DRes(at, container)
    ELSE
    Only({
    LET c0   == Deref(env, p.position)
        into == [t \in {BT_STRING, BT_INTEGER, BT_LIST, BT_DICTIONARY} |->
                   [container EXCEPT !.type = t]]
    IN  IF is_digit(c0)
        THEN Measured(p.position,
                   decode_bencoded_string(env, p, into[BT_STRING]))
        ELSE IF is_bencoded_int(c0)
        THEN Measured(p.position,
                   decode_bencoded_integer(env, p, into[BT_INTEGER]))
        ELSE IF c0 = Ch_l
        THEN Measured(p.position,
                   decode_bencoded_list(env, p, into[BT_LIST]))
        ELSE IF c0 = Ch_d
        THEN Measured(p.position,
                   decode_bencoded_dictionary(env, p, into[BT_DICTIONARY]))
        ELSE DRes(parser_set_error(p, PARSER_ERR_SYNTAX), container)
    : p \in {Peek(env, at)} })

\* decode_bencode: a fresh parser over the input, one decode_bencode_inner.
decode_bencode(env, container) == decode_bencode_inner(env, parser_init, container)

(***************************************************************************)
(* The encoder.  Each function returns the bytes it writes at target; the  *)
(* number it returns in C is their count.                                  *)
(***************************************************************************)
RECURSIVE DecDigits(_)
DecDigits(n) ==
    IF n < 10 THEN <<Ch_0 + n>>
    ELSE Append(DecDigits(n \div 10), Ch_0 + (n % 10))

\* sprintf("%li", n)
FormatLong(n) == IF n < 0 THEN <<Ch_MINUS>> \o DecDigits(0 - n) ELSE DecDigits(n)

encode_string(b) == FormatLong(b.string.size) \o <<Ch_COLON>> \o b.string.chars

encode_integer(b) == <<Ch_i>> \o FormatLong(b.integer) \o <<Ch_e>>

RECURSIVE route_bencode(_)
RECURSIVE EncodeListFrom(_, _)
RECURSIVE EncodeDictFrom(_, _)

\* the loop of encode_list from element k on
EncodeListFrom(elements, k) ==
    IF k > Len(elements) THEN <<>>
    ELSE route_bencode(elements[k]) \o EncodeListFrom(elements, k + 1)

\* the loop of encode_dict from element k on: the key as a STRING, the value
EncodeDictFrom(elements, k) ==
    IF k > Len(elements) THEN <<>>
    ELSE route_bencode([Blank EXCEPT !.type = BT_STRING,
                                     !.string = elements[k].key])
         \o route_bencode(elements[k].value)
         \o EncodeDictFrom(elements, k + 1)

encode_list(b) == <<Ch_l>> \o EncodeListFrom(b.list, 1) \o <<Ch_e>>

encode_dict(b) == <<Ch_d>> \o EncodeDictFrom(b.dictionary, 1) \o <<Ch_e>>

route_bencode(b) ==
    IF b.type = BT_STRING THEN encode_string(b)
    ELSE IF b.type = BT_INTEGER THEN encode_integer(b)
    ELSE IF b.type = BT_LIST THEN encode_list(b)
    ELSE IF b.type = BT_DICTIONARY THEN encode_dict(b)
    ELSE <<>>

\* encode_bencode: the bytes, then a zero byte stored at target[nbytes].
encode_bencode(b) ==
    LET bytes == route_bencode(b)
    IN  [nbytes |-> Len(bytes), target |-> Append(bytes, Ch_NUL)]

(***************************************************************************)
(* get_dict_key: the value of the first element whose key equals the C     *)
(* string searched for, or NULL.  A pointer to a Bencoded is [null, at].   *)
(***************************************************************************)
NullBencoded == [null |-> TRUE, at |-> Blank]

RECURSIVE DictSearch(_, _, _)
DictSearch(elements, search_str, i) ==
    IF i > Len(elements) THEN NullBencoded
    ELSE IF bstring_cmp_cstr(elements[i].key, search_str) = 0
    THEN [null |-> FALSE, at |-> elements[i].value]
    ELSE DictSearch(elements, search_str, i + 1)

get_dict_key(b, search_str) ==
    IF b.type # BT_DICTIONARY
    THEN NullBencoded
    ELSE DictSearch(b.dictionary, search_str, 1)

\* bstring_to_cstr: the bytes and a terminating zero in fresh storage
bstring_to_cstr(bstr) == Append(bstr.chars, Ch_NUL)

(***************************************************************************)
(* The metainfo object (torrent.c).  TorrentFile is [num_pieces,           *)
(* file_size, piece_length, name, pieces]; Piece is [index, size, hash,    *)
(* block_count, blocks_received, blocks]; Block is [size, offset, data].   *)
(* A call that returns a TorrentFile pointer gives [null, file, fault]:    *)
(* null for NULL, fault for undefined behaviour met on the way, after      *)
(* which no object is handed back.                                         *)
(***************************************************************************)
DEFAULT_BLOCK_SIZE == 16384
SHA_DIGEST_LENGTH  == 20

F_OOB     == "out_of_bounds"        \* a store past the end of an allocation
F_DIVZERO == "division_by_zero"     \* x % 0

Key_announce     == <<97, 110, 110, 111, 117, 110, 99, 101>>
Key_info         == <<105, 110, 102, 111>>
Key_length       == <<108, 101, 110, 103, 116, 104>>
Key_name         == <<110, 97, 109, 101>>
Key_piece_length == <<112, 105, 101, 99, 101, 32, 108, 101, 110, 103, 116, 104>>
Key_pieces       == <<112, 105, 101, 99, 101, 115>>

\* the storage malloc(sizeof(TorrentFile)) gives, before any field is set
NoFile ==
    [num_pieces |-> 0, file_size |-> 0, piece_length |-> 0,
     name |-> <<>>, pieces |-> <<>>]

TRes(null, file, fault) == [null |-> null, file |-> file, fault |-> fault]

\* total_size % part_size == 0 ? part_size : total_size % part_size
REMAINDER_OR_FULL(total_size, part_size) ==
    IF total_size % part_size = 0 THEN part_size ELSE total_size % part_size

\* block->data is never stored to: it holds what malloc's storage held
FreshData(un) == IF un = UN_ZERO THEN "null" ELSE "junk"

\* a variant that always rounds the block count up by one
piece_init_blocks_RoundUp(un, piece) ==
    LET block_count == (piece.size \div DEFAULT_BLOCK_SIZE) + 1
    IN  [fault |-> F_NONE,
         piece |-> [piece EXCEPT
            !.block_count = block_count,
            !.blocks_received = 0,
            !.blocks = [b \in 1..block_count |->
                IF b < block_count
                THEN [offset |-> (b - 1) * DEFAULT_BLOCK_SIZE,
                      size |-> DEFAULT_BLOCK_SIZE, data |-> FreshData(un)]
                ELSE [offset |-> (block_count - 1) * DEFAULT_BLOCK_SIZE,
                      size |-> REMAINDER_OR_FULL(piece.size, DEFAULT_BLOCK_SIZE),
                      data |-> FreshData(un)]]]]

(***************************************************************************)
(* piece_init_blocks.  With size 0 the block count is 0, the loop bound    *)
(* block_count - 1 is the largest size_t, and the loop stores past the     *)
(* zero-byte allocation.                                                   *)
(***************************************************************************)
piece_init_blocks(un, piece) ==
    LET block_count == IF piece.size % DEFAULT_BLOCK_SIZE = 0
                       THEN piece.size \div DEFAULT_BLOCK_SIZE
                       ELSE (piece.size \div DEFAULT_BLOCK_SIZE) + 1
    IN  IF block_count = 0
        THEN [fault |-> F_OOB,
              piece |-> [piece EXCEPT !.block_count = 0, !.blocks_received = 0]]
        ELSE [fault |-> F_NONE,
              piece |-> [piece EXCEPT
                 !.block_count = block_count,
                 !.blocks_received = 0,
                 !.blocks = [b \in 1..block_count |->
                     IF b < block_count
                     THEN [offset |-> (b - 1) * DEFAULT_BLOCK_SIZE,
                           size |-> DEFAULT_BLOCK_SIZE, data |-> FreshData(un)]
                     ELSE [offset |-> (block_count - 1) * DEFAULT_BLOCK_SIZE,
                           size |-> REMAINDER_OR_FULL(piece.size, DEFAULT_BLOCK_SIZE),
                           data |-> FreshData(un)]]]]

torrent_file_attach_file_size(file, info_dict) ==
    LET length == get_dict_key(info_dict, Key_length)
    IN  IF length.null \/ length.at.type # BT_INTEGER
        THEN TRes(TRUE, file, F_NONE)
        ELSE TRes(FALSE, [file EXCEPT !.file_size = length.at.integer], F_NONE)

torrent_file_attach_name(file, info_dict) ==
    LET name == get_dict_key(info_dict, Key_name)
    IN  IF name.null \/ name.at.type # BT_STRING
        THEN TRes(TRUE, file, F_NONE)
        ELSE TRes(FALSE, [file EXCEPT !.name = bstring_to_cstr(name.at.string)],
                  F_NONE)

torrent_file_attach_piece_length(file, info_dict) ==
    LET piece_length == get_dict_key(info_dict, Key_piece_length)
    IN  IF piece_length.null \/ piece_length.at.type # BT_INTEGER
        THEN TRes(TRUE, file, F_NONE)
        ELSE TRes(FALSE, [file EXCEPT !.piece_length = piece_length.at.integer],
                  F_NONE)

\* the 20 bytes of chars from offset i * SHA_DIGEST_LENGTH
HashAt(chars, i) ==
    SubSeq(chars, i * SHA_DIGEST_LENGTH + 1, (i + 1) * SHA_DIGEST_LENGTH)

NewPiece(i, size, hash) ==
    [index |-> i, size |-> size, hash |-> hash,
     block_count |-> 0, blocks_received |-> 0, blocks |-> <<>>]

\* the loop over the pieces 0 .. num_pieces - 2, from piece i on
RECURSIVE PiecesLoop(_, _, _, _)
PiecesLoop(un, file, chars, i) ==
    IF i >= file.num_pieces - 1
    THEN TRes(FALSE, file, F_NONE)
    ELSE LET r == piece_init_blocks(
                     un, NewPiece(i, file.piece_length, HashAt(chars, i)))
             f == [file EXCEPT !.pieces = Append(file.pieces, r.piece)]
         IN  IF r.fault # F_NONE
             THEN TRes(FALSE, f, r.fault)
             ELSE PiecesLoop(un, f, chars, i + 1)

\* a variant without the check of the length of the pieces string
torrent_file_attach_pieces_Unchecked(un, file, info_dict) ==
    LET pieces_hashes == get_dict_key(info_dict, Key_pieces)
    IN  IF pieces_hashes.null \/ pieces_hashes.at.type # BT_STRING
        THEN TRes(TRUE, file, F_NONE)
        ELSE TRes(FALSE,
                  [file EXCEPT !.num_pieces =
                      pieces_hashes.at.string.size \div SHA_DIGEST_LENGTH],
                  F_NONE)

(***************************************************************************)
(* torrent_file_attach_pieces.  num_pieces is the number of hashes in the  *)
(* pieces string whatever file_size and piece_length are.  With no hash    *)
(* the loop bound num_pieces - 1 is the largest size_t and the loop stores *)
(* past the zero-byte allocation; with piece_length 0 the size of the last *)
(* piece is a remainder of a division by zero.                             *)
(***************************************************************************)
torrent_file_attach_pieces(un, file, info_dict) ==
    LET pieces_hashes == get_dict_key(info_dict, Key_pieces)
    IN  IF pieces_hashes.null \/ pieces_hashes.at.type # BT_STRING
        THEN TRes(TRUE, file, F_NONE)
        ELSE IF pieces_hashes.at.string.size % SHA_DIGEST_LENGTH # 0
        THEN TRes(TRUE, file, F_NONE)
        ELSE LET chars == pieces_hashes.at.string.chars
                 f0 == [file EXCEPT
                           !.num_pieces = pieces_hashes.at.string.size
                                            \div SHA_DIGEST_LENGTH,
                           !.pieces = <<>>]
             IN  IF f0.num_pieces = 0
                 THEN TRes(FALSE, f0, F_OOB)
                 ELSE LET looped == PiecesLoop(un, f0, chars, 0)
                      IN  IF looped.fault # F_NONE
                          THEN looped
                          ELSE IF f0.piece_length = 0
                          THEN TRes(FALSE, looped.file, F_DIVZERO)
                          ELSE LET last == piece_init_blocks(un,
                                     NewPiece(f0.num_pieces - 1,
                                              REMAINDER_OR_FULL(f0.file_size,
                                                                f0.piece_length),
                                              HashAt(chars, f0.num_pieces - 1)))
                               IN  TRes(FALSE,
                                        [looped.file EXCEPT !.pieces =
                                            Append(looped.file.pieces, last.piece)],
                                        last.fault)

\* torrent_file_from_bcoded: the four attachments in turn, NULL at the
\* first that fails
torrent_file_from_bcoded(un, info_dict) ==
    LET a == torrent_file_attach_file_size(NoFile, info_dict)
        b == torrent_file_attach_name(a.file, info_dict)
        c == torrent_file_attach_piece_length(b.file, info_dict)
        d == torrent_file_attach_pieces(un, c.file, info_dict)
    IN  IF a.null THEN TRes(TRUE, NoFile, F_NONE)
        ELSE IF b.null THEN TRes(TRUE, NoFile, F_NONE)
        ELSE IF c.null THEN TRes(TRUE, NoFile, F_NONE)
        ELSE IF d.null THEN TRes(TRUE, NoFile, F_NONE)
        ELSE d

(***************************************************************************)
(* torrent_file_new: decode the bytes, look up "info", build.  The result  *)
(* also tells which dictionary went to torrent_file_from_bcoded (given,    *)
(* info_dict).                                                             *)
(***************************************************************************)
NRes(t, given, info_dict) ==
    [null |-> t.null, file |-> t.file, fault |-> t.fault,
     given |-> given, info_dict |-> info_dict]

torrent_file_new(env, container) ==
    LET r == decode_bencode(env, container)
        info_dict == get_dict_key(r.c, Key_info)
    IN  IF r.p.fault # F_NONE
        THEN NRes(TRes(FALSE, NoFile, r.p.fault), FALSE, Blank)
        ELSE IF r.p.state # PARSER_SUCCESS
        THEN NRes(TRes(TRUE, NoFile, free_bencoded(env.un, r.c)), FALSE, Blank)
        ELSE IF info_dict.null \/ info_dict.at.type # BT_DICTIONARY
        THEN NRes(TRes(TRUE, NoFile, F_NONE), FALSE, Blank)
        ELSE NRes(torrent_file_from_bcoded(env.un, info_dict.at),
                  TRUE, info_dict.at)

(***************************************************************************)
(* torrent_file_free with piece_free and block_free, as the fault they run *)
(* into: free(block->data) of a data pointer that is not null and was      *)
(* never given by malloc is a wild free.                                   *)
(***************************************************************************)
piece_free(piece) ==
    LET block_free(block) == IF block.data = "null" THEN F_NONE ELSE F_WILD
    IN  FirstFault({block_free(piece.blocks[i]) : i \in 1..piece.block_count})

torrent_file_free(file) ==
    FirstFault({piece_free(file.pieces[i]) : i \in 1..file.num_pieces})

(***************************************************************************)
(* The URL builder (url.c).  URL is [data, contains_query], data being the *)
(* BString pointed to.  url_new gives [null, url, fault]; an append gives  *)
(* [rc, url, fault, hang].                                                 *)
(***************************************************************************)
URL_SUCCESS    == 0
URL_ERR_MEMORY == -1

Ch_PERCENT == 37
Ch_AMP     == 38
Ch_EQ      == 61
Ch_QMARK   == 63

NoURL == [data |-> NoBString, contains_query |-> FALSE]

\* url_new: a buffer of capacity size, the size bytes of url appended to it
url_new(za, url, size) ==
    LET made == bstring_new(size)
        r    == bstring_append_bytes(za, made.bstr, SubSeq(url, 1, size))
    IN  IF ~made.ok
        THEN [null |-> TRUE, url |-> NoURL, fault |-> F_NONE]
        ELSE IF r.rc # BSTRING_SUCCESS
        THEN [null |-> TRUE, url |-> NoURL,
              fault |-> FirstFault({r.fault, bstring_free(r.bstr)})]
        ELSE [null |-> FALSE,
              url |-> [data |-> r.bstr, contains_query |-> FALSE],
              fault |-> F_NONE]

URes(rc, url, r) == [rc |-> rc, url |-> url, fault |-> r.fault, hang |-> r.hang]

AppendFailed(r) == r.hang \/ r.rc # BSTRING_SUCCESS

\* a variant that writes '&' before every pair, the first one too
url_append_query_param_Ampersand(za, url, key, value) ==
    LET a == bstring_append_char(za, url.data, Ch_AMP)
        b == bstring_append_cstr(za, a.bstr, key)
        c == bstring_append_char(za, b.bstr, Ch_EQ)
        d == bstring_append_cstr(za, c.bstr, value)
    IN  URes(URL_SUCCESS, [data |-> d.bstr, contains_query |-> TRUE], d)

\* url_append_query_param: '?' or '&', the key, '=', the value; the flag is
\* set as soon as the '?' is in, whatever becomes of the later appends
url_append_query_param(za, url, key, value) ==
    LET a == bstring_append_char(za, url.data,
                                 IF ~url.contains_query THEN Ch_QMARK ELSE Ch_AMP)
        b == bstring_append_cstr(za, a.bstr, key)
        c == bstring_append_char(za, b.bstr, Ch_EQ)
        d == bstring_append_cstr(za, c.bstr, value)
    IN  IF AppendFailed(a)
        THEN URes(URL_ERR_MEMORY, [url EXCEPT !.data = a.bstr], a)
        ELSE IF AppendFailed(b)
        THEN URes(URL_ERR_MEMORY, [data |-> b.bstr, contains_query |-> TRUE], b)
        ELSE IF AppendFailed(c)
        THEN URes(URL_ERR_MEMORY, [data |-> c.bstr, contains_query |-> TRUE], c)
        ELSE IF AppendFailed(d)
        THEN URes(URL_ERR_MEMORY, [data |-> d.bstr, contains_query |-> TRUE], d)
        ELSE URes(URL_SUCCESS, [data |-> d.bstr, contains_query |-> TRUE], d)

(***************************************************************************)
(* The tracker request (network.c).  C strings are byte sequences without  *)
(* their terminating zero; CStr gives the C string that starts a buffer.   *)
(***************************************************************************)
RECURSIVE CStrLen(_, _)
CStrLen(bytes, k) ==
    IF k > Len(bytes) \/ bytes[k] = Ch_NUL THEN k - 1 ELSE CStrLen(bytes, k + 1)

CStr(bytes) == SubSeq(bytes, 1, CStrLen(bytes, 1))

Lit_info_hash  == <<105, 110, 102, 111, 95, 104, 97, 115, 104>>
Lit_peer_id    == <<112, 101, 101, 114, 95, 105, 100>>
Lit_port       == <<112, 111, 114, 116>>
Lit_uploaded   == <<117, 112, 108, 111, 97, 100, 101, 100>>
Lit_downloaded == <<100, 111, 119, 110, 108, 111, 97, 100, 101, 100>>
Lit_compact    == <<99, 111, 109, 112, 97, 99, 116>>
Lit_left       == <<108, 101, 102, 116>>
\* "00112233445566778899" and "6881"
Lit_client_id  == <<48, 48, 49, 49, 50, 50, 51, 51, 52, 52,
                    53, 53, 54, 54, 55, 55, 56, 56, 57, 57>>
Lit_6881       == <<54, 56, 56, 49>>

\* hash_bencoded: encode_bencode into malloc(encoded_length) bytes, SHA1 of
\* the bytes.  sha is the digest SHA1 gives; the zero byte encode_bencode
\* stores after the bytes is past the allocation when nothing is left of it.
hash_bencoded(sha, b) ==
    LET e == encode_bencode(b)
    IN  [ok |-> TRUE, hash |-> sha,
         allocated |-> b.encoded_length, written |-> Len(e.target),
         fault |-> IF Len(e.target) > b.encoded_length THEN F_OOB ELSE F_NONE]

\* get_announce_url: the BString under "announce", or NULL
get_announce_url(torrent) ==
    LET announce == get_dict_key(torrent, Key_announce)
    IN  IF announce.null \/ announce.at.type # BT_STRING
        THEN [null |-> TRUE, bstr |-> NoBString]
        ELSE [null |-> FALSE, bstr |-> announce.at.string]

initialize_url(za, tracker_url, size) == url_new(za, tracker_url, size)

\* curl_easy_escape: the unreserved bytes of RFC 3986 as they are, every
\* other byte as '%' and two upper-case hexadecimal digits
HexDigit(n) == IF n < 10 THEN Ch_0 + n ELSE 65 + (n - 10)

IsUnreserved(c) ==
    \/ is_digit(c)
    \/ c >= 65 /\ c <= 90
    \/ c >= 97 /\ c <= 122
    \/ c \in {45, 46, 95, 126}

RECURSIVE curl_easy_escape(_, _)
curl_easy_escape(bytes, k) ==
    IF k > Len(bytes) THEN <<>>
    ELSE (IF IsUnreserved(bytes[k])
          THEN <<bytes[k]>>
          ELSE <<Ch_PERCENT, HexDigit(bytes[k] \div 16), HexDigit(bytes[k] % 16)>>)
         \o curl_easy_escape(bytes, k + 1)

\* hashed: whether hash_bencoded ran, the size of its buffer and the
\* number of bytes stored into it
NoHashed == [ran |-> FALSE, allocated |-> 0, written |-> 0]

get_escaped_info_hash(sha, torrent) ==
    LET info == get_dict_key(torrent, Key_info)
        h    == hash_bencoded(sha, info.at)
    IN  IF info.null
        THEN [null |-> TRUE, escaped |-> <<>>, fault |-> F_NONE,
              hashed |-> NoHashed]
        ELSE [null |-> FALSE, escaped |-> curl_easy_escape(h.hash, 1),
              fault |-> h.fault,
              hashed |-> [ran |-> TRUE, allocated |-> h.allocated,
                          written |-> h.written]]

\* the six fixed parameters, each appended only if all before it went in
RECURSIVE AppendAll(_, _, _, _)
AppendAll(za, url, pairs, k) ==
    IF k > Len(pairs)
    THEN [rc |-> URL_SUCCESS, url |-> url, fault |-> F_NONE, hang |-> FALSE]
    ELSE LET r == url_append_query_param(za, url, pairs[k][1], pairs[k][2])
         IN  IF r.hang \/ r.rc # URL_SUCCESS
             THEN r
             ELSE AppendAll(za, r.url, pairs, k + 1)

append_query_params(za, url, info_hash) ==
    AppendAll(za, url,
              << <<Lit_info_hash, info_hash>>, <<Lit_peer_id, Lit_client_id>>,
                 <<Lit_port, Lit_6881>>, <<Lit_uploaded, <<Ch_0>> >>,
                 <<Lit_downloaded, <<Ch_0>> >>, <<Lit_compact, <<49>> >> >>, 1)

\* length->data.integer, read whatever the type of the value is: the union
\* gives the integer, the size of a list or dictionary, or, of a string,
\* the address of its BString (junk)
UnionInteger(junk, b) ==
    IF b.type = BT_INTEGER THEN b.integer
    ELSE IF b.type = BT_LIST THEN Len(b.list)
    ELSE IF b.type = BT_DICTIONARY THEN Len(b.dictionary)
    ELSE junk

\* snprintf(length_str, 20, "%li", n): at most 19 characters of the number
LengthStrSize == 20

snprintf_li(n) ==
    LET text == FormatLong(n)
    IN  IF Len(text) < LengthStrSize THEN text
        ELSE SubSeq(text, 1, LengthStrSize - 1)

append_length_param(za, junk, url, info) ==
    LET length == get_dict_key(info, Key_length)
    IN  IF length.null
        THEN [rc |-> -1, url |-> url, fault |-> F_NONE, hang |-> FALSE]
        ELSE url_append_query_param(za, url, Lit_left,
                                    snprintf_li(UnionInteger(junk, length.at)))

(***************************************************************************)
(* get_tracker_response, up to the request: [requested, url_str, fault,    *)
(* hang, hashed].  requested tells that curl_easy_perform was called, with *)
(* the C string url_str.  A store past an allocation (hash_bencoded)       *)
(* either does no harm or ends the run: harmless says which.               *)
(***************************************************************************)
TReq(requested, url_str, fault, hang) ==
    [requested |-> requested, url_str |-> url_str, fault |-> fault, hang |-> hang,
     hashed |-> NoHashed]

get_tracker_response(za, sha, junk, harmless, torrent) ==
    LET tracker_url == get_announce_url(torrent)
        url     == initialize_url(za, tracker_url.bstr.chars, tracker_url.bstr.size)
        escaped == get_escaped_info_hash(sha, torrent)
        a       == append_query_params(za, url.url, escaped.escaped)
        b       == append_length_param(za, junk, a.url,
                                       get_dict_key(torrent, Key_info).at)
    IN  IF tracker_url.null THEN TReq(FALSE, <<>>, F_NONE, FALSE)
        ELSE IF url.fault # F_NONE THEN TReq(FALSE, <<>>, url.fault, FALSE)
        ELSE IF url.null THEN TReq(FALSE, <<>>, F_NONE, FALSE)
        ELSE IF escaped.null THEN TReq(FALSE, <<>>, F_NONE, FALSE)
        ELSE [hashed |-> escaped.hashed] @@
        (IF escaped.fault # F_NONE /\ ~harmless
        THEN TReq(FALSE, <<>>, escaped.fault, FALSE)
        ELSE IF a.hang \/ a.fault # F_NONE THEN TReq(FALSE, <<>>, a.fault, a.hang)
        ELSE IF a.rc # URL_SUCCESS THEN TReq(FALSE, <<>>, F_NONE, FALSE)
        ELSE IF b.hang \/ b.fault # F_NONE THEN TReq(FALSE, <<>>, b.fault, b.hang)
        ELSE IF b.rc # URL_SUCCESS THEN TReq(FALSE, <<>>, F_NONE, FALSE)
        ELSE TReq(TRUE, CStr(bstring_to_cstr(b.url.data)), F_NONE, FALSE))

(***************************************************************************)
(* The tracker's answer (network.c).  Tracker_Response is [data, ok,       *)
(* ok_set, interval, peers, peers_count, peers_set]: parsed is written     *)
(* out, and ok_set and peers_set tell whether ok and parsed.peers were     *)
(* ever assigned.  A Peer is [type, ip, port] with ip a BString.           *)
(***************************************************************************)
IP_V4_MAX_LENGTH == 15
Ch_DOT == 46

Key_interval       == <<105, 110, 116, 101, 114, 118, 97, 108>>
Key_peers          == <<112, 101, 101, 114, 115>>
Key_failure_reason == <<102, 97, 105, 108, 117, 114, 101, 32,
                        114, 101, 97, 115, 111, 110>>

\* typeis(b, type)
typeis(b, type) == b.type = type

\* malloc(sizeof(Tracker_Response)) and data = bstring_new(1024): ok and
\* parsed are not written and hold what the storage held.
response_aggregator(un) ==
    [data |-> bstring_new(1024).bstr,
     ok |-> un = UN_JUNK, ok_set |-> FALSE,
     interval |-> IF un = UN_ZERO THEN 0 ELSE -1,
     peers |-> <<>>,
     peers_count |-> IF un = UN_ZERO THEN 0 ELSE 4096,
     peers_set |-> FALSE]

get_check_interval(b) ==
    LET interval == get_dict_key(b, Key_interval)
    IN  IF interval.null THEN NullBencoded
        ELSE IF ~typeis(interval.at, BT_INTEGER) THEN NullBencoded
        ELSE interval

get_check_peers(b) ==
    LET peers == get_dict_key(b, Key_peers)
    IN  IF peers.null THEN NullBencoded
        ELSE IF peers.at.type # BT_STRING THEN NullBencoded
        ELSE peers

\* a variant that never finds a failure
tracker_response_has_failure_Never(b) == FALSE

tracker_response_has_failure(b) == ~get_dict_key(b, Key_failure_reason).null

peers_list_is_valid(b) == b.string.size % 6 = 0

(***************************************************************************)
(* snprintf(ip->chars, IP_V4_MAX_LENGTH, "%u.%u.%u.%u", ...) into a        *)
(* buffer of bstring_new(IP_V4_MAX_LENGTH), then ip->size = bytes_written: *)
(* snprintf stores at most IP_V4_MAX_LENGTH - 1 characters and a zero      *)
(* byte after them, and returns the length of the whole text.              *)
(***************************************************************************)
snprintf_ip(ip, raw, i) ==
    LET text == DecDigits(raw[i + 1]) \o <<Ch_DOT>> \o DecDigits(raw[i + 2])
                \o <<Ch_DOT>> \o DecDigits(raw[i + 3]) \o <<Ch_DOT>>
                \o DecDigits(raw[i + 4])
        bytes_written == Len(text)
        stored == IF bytes_written < IP_V4_MAX_LENGTH
                  THEN text \o <<Ch_NUL>>
                  ELSE SubSeq(text, 1, IP_V4_MAX_LENGTH - 1) \o <<Ch_NUL>>
    IN  [ip EXCEPT !.size = bytes_written,
                   !.chars = SubSeq(stored, 1, bytes_written)]

\* the loop of put_peers_in_tracker_res from offset i on, one peer for
\* each step of six bytes while i < Len(raw); the capacity of the list
\* doubles as needed and is not kept in the response
PeersLoop(raw, i, peers_list) ==
    peers_list \o
    [k \in 1..((Len(raw) - i + 5) \div 6) |->
       [type |-> "IPV4",
        ip |-> snprintf_ip(bstring_new(IP_V4_MAX_LENGTH).bstr, raw,
                           i + 6 * (k - 1)),
        port |-> raw[i + 6 * (k - 1) + 5] * 256 + raw[i + 6 * (k - 1) + 6]]]

put_peers_in_tracker_res(src, dest) ==
    LET peers_raw == src.string
    IN  IF peers_raw.size % 6 # 0
        THEN [dest EXCEPT !.ok = FALSE, !.ok_set = TRUE]
        ELSE LET peers_list == PeersLoop(peers_raw.chars, 0, <<>>)
             IN  [dest EXCEPT !.peers = peers_list,
                              !.peers_count = Len(peers_list),
                              !.peers_set = TRUE,
                              !.ok = TRUE, !.ok_set = TRUE]

handle_tracker_response(b, res) ==
    IF ~typeis(b, BT_DICTIONARY) THEN res
    ELSE IF tracker_response_has_failure(b) THEN [res EXCEPT !.ok = FALSE, !.ok_set = TRUE]
    ELSE LET interval == get_check_interval(b)
             peers    == get_check_peers(b)
             res1     == [res EXCEPT !.interval = interval.at.integer]
         IN  IF interval.null THEN [res EXCEPT !.ok = FALSE, !.ok_set = TRUE]
             ELSE IF peers.null THEN [res1 EXCEPT !.ok = FALSE, !.ok_set = TRUE]
             ELSE IF ~peers_list_is_valid(peers.at) THEN [res1 EXCEPT !.ok = FALSE, !.ok_set = TRUE]
             ELSE put_peers_in_tracker_res(peers.at, res1)

(***************************************************************************)
(* handle_data, curl's write callback: [ret, mem, appended, status, fault, *)
(* hang].  oom says that the realloc of this append finds no memory; past  *)
(* is the byte that storage holds after the accumulated bytes.  status is  *)
(* decode_bencode's result, looked at only when appended.                  *)
(***************************************************************************)
\* a variant that decodes the bytes that just arrived
handle_data_Resumed(za, un, past, oom, mem, contents) ==
    LET a == bstring_append_bytes(IF oom THEN ZA_NOMEM ELSE za, mem.data, contents)
        realsize == Len(contents)
        held == [mem EXCEPT !.data = a.bstr]
        d == decode_bencode(Env(contents, past, za, un), Blank)
        out(ret, m, appended, fault) ==
            [ret |-> ret, mem |-> m, appended |-> appended,
             status |-> d.p.state, fault |-> fault, hang |-> a.hang]
    IN  IF a.hang \/ a.rc # BSTRING_SUCCESS THEN out(0, held, FALSE, a.fault)
        ELSE IF d.p.fault # F_NONE THEN out(0, held, TRUE, d.p.fault)
        ELSE IF d.p.state # PARSER_SUCCESS
        THEN (IF d.p.state \in {PARSER_ERR_MEMORY, PARSER_ERR_SYNTAX}
              THEN out(0, held, TRUE, F_NONE)
              ELSE out(realsize, held, TRUE, F_NONE))
        ELSE out(realsize, handle_tracker_response(d.c, held), TRUE,
                 free_bencoded_inner(un, d.c))

handle_data(za, un, past, oom, mem, contents) ==
    LET a == bstring_append_bytes(IF oom THEN ZA_NOMEM ELSE za, mem.data, contents)
        realsize == Len(contents)
        held == [mem EXCEPT !.data = a.bstr]
        d == decode_bencode(Env(held.data.chars, past, za, un), Blank)
        out(ret, m, appended, fault) ==
            [ret |-> ret, mem |-> m, appended |-> appended,
             status |-> d.p.state, fault |-> fault, hang |-> a.hang]
    IN  IF a.hang \/ a.rc # BSTRING_SUCCESS THEN out(0, held, FALSE, a.fault)
        ELSE IF d.p.fault # F_NONE THEN out(0, held, TRUE, d.p.fault)
        ELSE IF d.p.state # PARSER_SUCCESS
        THEN (IF d.p.state \in {PARSER_ERR_MEMORY, PARSER_ERR_SYNTAX}
              THEN out(0, held, TRUE, F_NONE)
              ELSE out(realsize, held, TRUE, F_NONE))
        ELSE out(realsize, handle_tracker_response(d.c, held), TRUE,
                 free_bencoded_inner(un, d.c))


(***************************************************************************)
(* Peer connections (network.c).  A C string is its bytes without the      *)
(* terminating zero.  Sockets are file descriptors: the first socket()     *)
(* call of a run gives FirstSocket, the next one the number after it;      *)
(* open is the set of descriptors not closed.                              *)
(***************************************************************************)
MAX_PORT_RANGE == 65535
FirstSocket == 3

\* strchr(s, c) as an offset from s, -1 for NULL
strchr(s, c) ==
    IF \E k \in 1..Len(s) : s[k] = c
    THEN (CHOOSE k \in 1..Len(s) : s[k] = c /\ \A j \in 1..(k - 1) : s[j] # c) - 1
    ELSE -1

\* atoi(nptr) is (int) strtol(nptr, NULL, 10)
atoi(nptr) == strtol(Env(nptr, Ch_NUL, ZA_UNIQUE, UN_ZERO), 0).value

(***************************************************************************)
(* parse_address into char ip[IP_V4_MAX_LENGTH]: with IP_V4_MAX_LENGTH or  *)
(* more bytes before the colon, strncpy and ip[ip_len] = 0 store past the  *)
(* end of ip.                                                              *)
(***************************************************************************)
parse_address(address) ==
    LET colon_pos == strchr(address, Ch_COLON)
        ip_len    == colon_pos
        port      == atoi(SubSeq(address, colon_pos + 2, Len(address)))
        out(rc, fault) ==
            [rc |-> rc, ip |-> SubSeq(address, 1, ip_len), port |-> port,
             fault |-> fault]
    IN  IF colon_pos < 0
        THEN [rc |-> -1, ip |-> <<>>, port |-> 0, fault |-> F_NONE]
        ELSE IF port <= 0 \/ port > MAX_PORT_RANGE
        THEN out(-1, IF ip_len >= IP_V4_MAX_LENGTH THEN F_OOB ELSE F_NONE)
        ELSE out(0, IF ip_len >= IP_V4_MAX_LENGTH THEN F_OOB ELSE F_NONE)

\* tcp_connect_inet_hp: a socket of its own, then connect, which the peer
\* answers (reachable) or not.  inet_pton's result is not looked at.
tcp_connect_inet_hp(ip, port, reachable, open) ==
    LET sock == FirstSocket + Cardinality(open)
    IN  [sock |-> IF reachable THEN sock ELSE -1,
         attempted |-> TRUE, ip |-> ip, port |-> port,
         open |-> IF reachable THEN open \cup {sock} ELSE open,
         fault |-> F_NONE]

\* tcp_connect_inet_cstr.  A store past the end of ip either does no harm
\* or ends the run: harmless says which.
tcp_connect_inet_cstr(addr, reachable, harmless) ==
    LET sock == FirstSocket
        p    == parse_address(addr)
    IN  IF p.fault # F_NONE /\ ~harmless
        THEN [sock |-> -1, attempted |-> FALSE, ip |-> p.ip, port |-> p.port,
              open |-> {sock}, fault |-> p.fault]
        ELSE IF p.rc < 0
        THEN [sock |-> -1, attempted |-> FALSE, ip |-> p.ip, port |-> p.port,
              open |-> {}, fault |-> F_NONE]
        ELSE tcp_connect_inet_hp(p.ip, p.port, reachable, {sock})

(***************************************************************************)
(* read_socket_exact over a connection on which the peer sends the bytes   *)
(* of stream and then closes.  recvs holds what the coming recv calls      *)
(* give: -1 for an error, or the most bytes one call hands over; when      *)
(* recvs is used up a call hands over all it can.  A recv at the end of    *)
(* the stream gives 0, and so does every recv after it.                    *)
(* The result is [rc, got, hang], got being the bytes stored in buffer.    *)
(***************************************************************************)
RECURSIVE read_socket_exact(_, _, _, _)
read_socket_exact(stream, recvs, n, b_read) ==
    IF b_read >= n
    THEN [rc |-> b_read, got |-> SubSeq(stream, 1, b_read), hang |-> FALSE]
    ELSE LET left  == Len(stream) - b_read
             most  == IF recvs = <<>> THEN n ELSE Head(recvs)
             small == IF most < n - b_read THEN most ELSE n - b_read
             bytes == IF most < 0 THEN -1
                      ELSE IF small < left THEN small ELSE left
         IN  IF bytes < 0
             THEN [rc |-> -1, got |-> SubSeq(stream, 1, b_read), hang |-> FALSE]
             ELSE IF bytes = 0
             THEN [rc |-> 0, got |-> SubSeq(stream, 1, b_read), hang |-> TRUE]
             ELSE read_socket_exact(stream,
                                    IF recvs = <<>> THEN recvs ELSE Tail(recvs),
                                    n, b_read + bytes)

(***************************************************************************)
(* Peer_Header_BitTorrent, a packed struct of 68 bytes, and handshake      *)
(* (torrent.c).  net is the connection: send is what send() returns,       *)
(* stream and recvs are as for read_socket_exact.  The result is [null,    *)
(* header, sent, received, read, hang]: sent are the bytes that went out,  *)
(* received tells whether read_socket_exact was called, read is its result.*)
(***************************************************************************)
Lit_protocol == <<66, 105, 116, 84, 111, 114, 114, 101, 110, 116, 32,
                  112, 114, 111, 116, 111, 99, 111, 108>>

\* a variant of the layout with peer_id before info_hash
header_bytes_IdFirst(h) ==
    <<h.pstrlen>> \o h.proto_name \o h.reserved \o h.peer_id \o h.info_hash

\* the bytes of a header in memory
header_bytes(h) ==
    <<h.pstrlen>> \o h.proto_name \o h.reserved \o h.info_hash \o h.peer_id

\* the header that bytes in memory are
header_of(bytes) ==
    [pstrlen |-> bytes[1], proto_name |-> SubSeq(bytes, 2, 20),
     reserved |-> SubSeq(bytes, 21, 28), info_hash |-> SubSeq(bytes, 29, 48),
     peer_id |-> SubSeq(bytes, 49, 68)]

handshake(net, info_hash, peer_id) ==
    LET header == [pstrlen |-> 19, proto_name |-> Lit_protocol,
                   reserved |-> [k \in 1..8 |-> 0],
                   info_hash |-> SubSeq(info_hash, 1, 20),
                   peer_id |-> SubSeq(peer_id, 1, 20)]
        frame  == header_bytes(header)
        rd     == read_socket_exact(net.stream, net.recvs, Len(frame), 0)
        idle   == [rc |-> 0, got |-> <<>>, hang |-> FALSE]
        out(null, h, sent, received, read) ==
            [null |-> null, header |-> h, sent |-> sent,
             received |-> received, read |-> read, hang |-> read.hang]
    IN  IF net.send < 0 THEN out(TRUE, header, <<>>, FALSE, idle)
        ELSE LET sent == SubSeq(frame, 1, net.send)
             IN  IF rd.hang \/ rd.rc < 0 THEN out(TRUE, header, sent, TRUE, rd)
                 ELSE IF memcmp(header_of(rd.got).proto_name, Lit_protocol, 1) # 0
                 THEN out(TRUE, header_of(rd.got), sent, TRUE, rd)
                 ELSE out(FALSE, header_of(rd.got), sent, TRUE, rd)

(***************************************************************************)
(* Inputs of the codec: every byte string over Alphabet of at most MaxLen  *)
(* bytes, and every prefix of the longer values of Catalogue.              *)
(***************************************************************************)
MaxLen == 3

Alphabet == {Ch_i, Ch_l, Ch_d, Ch_e, Ch_0, 49, Ch_MINUS, Ch_COLON, 97}

\* the decoder's scenarios of the specification (S1 to S4)
Scenarios ==
    { <<53, 58, 104, 101, 108, 108, 111>>,                  \* 5:hello
      <<Ch_i, Ch_MINUS, 52, 50, Ch_e>>,                     \* i-42e
      <<Ch_i, Ch_MINUS, Ch_0, Ch_e>>,                       \* i-0e
      <<Ch_i, Ch_0, 51, Ch_e>>,                             \* i03e
      <<Ch_d, 51, 58, 99, 111, 119, 51, 58, 109, 111, 111,
        52, 58, 115, 112, 97, 109, Ch_l, 49, 58, 97,
        49, 58, 98, Ch_e, Ch_e>> }                          \* d3:cow3:moo4:spaml1:a1:bee

\* lists of two leaves, dictionaries of one and of two pairs, one level of
\* nesting, and two values whose length takes two digits
Catalogue ==
    LET KeyTexts  == { <<Ch_0, Ch_COLON>>, <<49, Ch_COLON, Ch_0>>,
                       <<49, Ch_COLON, 97>> }
        LeafTexts == { <<Ch_i, Ch_0, Ch_e>>, <<Ch_i, Ch_MINUS, 49, Ch_e>>,
                       <<49, Ch_COLON, 97>>, <<Ch_0, Ch_COLON>>, <<Ch_l, Ch_e>> }
        ListTexts  == { <<Ch_l>> \o v1 \o v2 \o <<Ch_e>> :
                          v1 \in LeafTexts, v2 \in LeafTexts }
        Dict1Texts == { <<Ch_d>> \o k \o v \o <<Ch_e>> :
                          k \in KeyTexts, v \in LeafTexts }
        Dict2Texts == { <<Ch_d>> \o k1 \o v1 \o k2 \o v2 \o <<Ch_e>> :
                          k1 \in KeyTexts, v1 \in LeafTexts,
                          k2 \in KeyTexts, v2 \in LeafTexts }
        NestedTexts == { <<Ch_l>> \o x \o <<Ch_e>> : x \in ListTexts \cup Dict1Texts }
                       \cup { <<Ch_d>> \o k \o x \o <<Ch_e>> :
                                k \in KeyTexts, x \in ListTexts \cup Dict1Texts }
        LongTexts == { <<Ch_i, 49, Ch_0, Ch_e>>,
                       <<49, Ch_0, Ch_COLON>> \o [k \in 1..10 |-> 97] }
    IN  ListTexts \cup Dict1Texts \cup Dict2Texts \cup NestedTexts \cup LongTexts
        \cup Scenarios

PrefixesOf(t) == { SubSeq(t, 1, n) : n \in 0..Len(t) }

Inputs ==
    UNION {[1..n -> Alphabet] : n \in 0..MaxLen}
    \cup UNION { PrefixesOf(t) : t \in Catalogue }

PastBytes == Alphabet \cup {Ch_NUL}

(***************************************************************************)
(* Metainfo files: a top-level dictionary with "announce" and "info", the  *)
(* info dictionary with each of its four keys absent, of the wrong kind,   *)
(* or holding one of a few values.  The keys are written in ascending      *)
(* order.  The bytes of a pieces string are 1, 2, 3, ... so that each      *)
(* 20-byte slice of it differs from every other.                           *)
(***************************************************************************)
MaxPieces == 3

BStr(bytes) == DecDigits(Len(bytes)) \o <<Ch_COLON>> \o bytes
BInt(n)     == <<Ch_i>> \o FormatLong(n) \o <<Ch_e>>
BDict(body) == <<Ch_d>> \o body \o <<Ch_e>>

\* the entry of a key: nothing when the value text is empty
Entry(key, text) == IF text = <<>> THEN <<>> ELSE BStr(key) \o text

FileSizes    == {0, 1, 4, 5, 6, 16384, 32768, 32769, 49152, 80000, 100000}
PieceLengths == {0, 1, 2, 3, 16384, 16385, 32768, 40000}
PiecesSizes  == {SHA_DIGEST_LENGTH * k : k \in 0..MaxPieces}
                \cup {SHA_DIGEST_LENGTH - 1, SHA_DIGEST_LENGTH + 1}

InfoTexts ==
    LET LengthTexts      == {<<>>, BStr(<<97>>)} \cup {BInt(n) : n \in FileSizes}
        NameTexts        == {<<>>, BInt(0), BStr(<<97>>)}
        PieceLengthTexts == {<<>>, BStr(<<97>>)} \cup {BInt(n) : n \in PieceLengths}
        PiecesTexts      == {<<>>, BInt(0)}
                            \cup {BStr([j \in 1..n |-> j]) : n \in PiecesSizes}
    IN  { BDict(Entry(Key_length, l) \o Entry(Key_name, n)
                \o Entry(Key_piece_length, pl) \o Entry(Key_pieces, ps)) :
            l \in LengthTexts, n \in NameTexts,
            pl \in PieceLengthTexts, ps \in PiecesTexts }

AnnounceText == BStr(<<104, 116, 116, 112, 58, 47, 47, 116, 47, 97>>)  \* http://t/a

TorrentFiles ==
    { BDict(Entry(Key_announce, AnnounceText) \o Entry(Key_info, i)) :
        i \in InfoTexts \cup {<<>>, BInt(0)} }
    \cup {<<>>, BInt(0), BDict(Entry(Key_info, <<Ch_d>>))}

(***************************************************************************)
(* Metainfo files for the tracker request: "announce" absent, of the wrong *)
(* kind, empty, with a zero byte in it, or a URL; "info" absent, not a     *)
(* dictionary, or a dictionary whose "length" is absent, of another kind,  *)
(* or an integer.  Digests are what SHA1 may give, Addresses what the      *)
(* address of a BString may be.                                            *)
(***************************************************************************)
TrackerFiles ==
    LET AnnounceTexts ==
            {<<>>, BInt(0), BStr(<<>>), BStr(<<117>>), BStr(<<117, Ch_NUL, 118>>),
             BStr(<<117, Ch_QMARK, 120>>), AnnounceText}
        LengthTexts ==
            {<<>>, BStr(<<97>>), <<Ch_l, Ch_e>>,
             BInt(0), BInt(5), BInt(-3), BInt(12345), <<Ch_i, Ch_0, 53, Ch_e>>}
        InfoDicts ==
            {<<>>, BInt(0), BStr(<<97>>)}
            \cup { BDict(Entry(Key_length, l) \o Entry(Key_name, n)) :
                     l \in LengthTexts, n \in {<<>>, BStr(<<97>>)} }
    IN  { BDict(Entry(Key_announce, a) \o Entry(Key_info, i)) :
            a \in AnnounceTexts, i \in InfoDicts }
        \cup {BInt(0)}

Digests ==
    { [k \in 1..SHA_DIGEST_LENGTH |-> pattern[(k % Len(pattern)) + 1]] :
        pattern \in { <<97>>, <<Ch_NUL, 255>>, <<126, Ch_PERCENT, Ch_SPACE, 65, 10>> } }

Addresses == {4096, 24576}

(***************************************************************************)
(* Inputs of the URL builder: bases, and keys and values as C strings.     *)
(***************************************************************************)
MaxParams == 3

Bases     == {<<>>, <<117>>, <<117, Ch_QMARK>>, <<117, Ch_NUL, 118>>,
              <<104, 116, 116, 112, 58, 47, 47, 116, 47, 97>>}
ParamKeys   == {<<107>>, <<107, 50>>, <<>>}
ParamValues == {<<>>, <<118>>, <<Ch_PERCENT, 52, 49>>}

(***************************************************************************)
(* Bodies a tracker may answer with: dictionaries in which "failure        *)
(* reason", "interval" and "peers" are absent, of the expected kind or of  *)
(* another; peers strings of no, one and two peers and of a length that is *)
(* not a multiple of 6; a body that is not a dictionary; and one body      *)
(* longer than the 1024 bytes the accumulated buffer starts with.  curl    *)
(* hands the body over in pieces of the sizes in ChunkSizes, or all that   *)
(* is left; pieces shorter than a packet come within the first MaxSplit    *)
(* bytes, which is longer than every body but the long one.                *)
(***************************************************************************)
ResponseBodies ==
    LET Hosts == { <<10, 0, 0, 1>>, <<255, 255, 255, 255>>, <<0, 0, 0, 0>>,
                   <<192, 168, 1, 20>>, <<100, 100, 100, 100>> }
        S7    == <<10, 0, 0, 1, 26, 225>>
        Raws  == { h \o <<26, 225>> : h \in Hosts }
                 \cup { <<>>, <<10, 0, 0, 1, 26>>, S7 \o <<0>>,
                        S7 \o <<255, 255, 255, 255, 255, 255>>,
                        <<0, 0, 0, 0, 0, 0>> \o S7 }
        Long  == [k \in 1..1020 |-> S7[((k - 1) % 6) + 1]]
        FailureTexts  == {<<>>, BStr(<<110, 111>>), BInt(0)}
        IntervalTexts == {<<>>, BInt(1800), BInt(0), BStr(<<97>>)}
        PeersTexts    == {<<>>, <<Ch_l, Ch_e>>, BStr(S7), BStr(<<10, 0, 0, 1, 26>>)}
    IN  { BDict(Entry(Key_failure_reason, f) \o Entry(Key_interval, i)
                \o Entry(Key_peers, ps)) :
            f \in FailureTexts, i \in IntervalTexts, ps \in PeersTexts }
        \cup { BDict(Entry(Key_interval, BInt(1800)) \o Entry(Key_peers, BStr(r))) :
                 r \in Raws \cup {Long} }
        \cup { BInt(0), <<Ch_l, Ch_e>> }

ChunkSizes == {1, 7, 600}

MaxSplit == 64

(***************************************************************************)
(* Inputs of the handshake command: the peer address given on the command  *)
(* line, what send() returns, the bytes the peer sends back before it      *)
(* closes (the frame echoed, the frame with one field changed, a part of   *)
(* it, nothing, more than one frame) and what the recv calls give.         *)
(***************************************************************************)
PeerAddresses ==
    { <<49, 48, 46, 48, 46, 48, 46, 49, 58, 54, 56, 56, 49>>,    \* 10.0.0.1:6881
      <<58, 54, 56, 56, 49>>,                                    \* :6881
      <<49, 48, 46, 48, 46, 48, 46, 49, 58, 48>>,                \* 10.0.0.1:0
      <<49, 48, 46, 48, 46, 48, 46, 49, 58, 54, 53, 53, 51, 53>>, \* 10.0.0.1:65535
      <<49, 48, 46, 48, 46, 48, 46, 49, 58, 54, 53, 53, 51, 54>>, \* 10.0.0.1:65536
      <<49, 48, 46, 48, 46, 48, 46, 49, 58>>,                    \* 10.0.0.1:
      <<49, 48, 46, 48, 46, 48, 46, 49>>,                        \* 10.0.0.1
      <<49, 48, 46, 48, 46, 48, 46, 49, 58, 45, 49>>,            \* 10.0.0.1:-1
      <<>>,                                                      \* (empty)
      <<58>>,                                                    \* :
      <<49, 48, 48, 46, 49, 48, 48, 46, 49, 48, 48, 46, 49, 48, 48, 58, 49>>, \* 100.100.100.100:1
      <<49, 50, 55, 46, 48, 46, 48, 46, 49, 58, 49>>,            \* 127.0.0.1:1
      <<120, 58, 56, 48>> }                                      \* x:80

SendResults == {-1, 0, 10, 68}

Streams(frame) ==
    { frame, [frame EXCEPT ![1] = 18], [frame EXCEPT ![1] = 0],
      [frame EXCEPT ![2] = 98], [frame EXCEPT ![20] = 76],
      [frame EXCEPT ![21] = 1], [frame EXCEPT ![29] = 7],
      [frame EXCEPT ![49] = 7], SubSeq(frame, 1, 20), <<>>,
      frame \o <<0, 0, 0, 1, 1>> }

RecvScripts == { <<>>, <<1>>, <<20, 48>>, <<67>>, <<-1>>, <<5, -1>> }

(***************************************************************************)
(* Inputs of the byte buffer: the capacity asked of bstring_new, the       *)
(* characters, byte strings, C strings and buffers appended, at most       *)
(* MaxAppends of them, and the contents of the buffer compared with.       *)
(***************************************************************************)
MaxAppends == 3

Capacities   == {0, 1, 2, 3, 16}
AppendChars  == {Ch_NUL, 97}
AppendBytes  == {<<>>, <<98>>, <<97, 98>>, <<255, 0, 1, 2, 3>>}
AppendCstrs  == {<<97>>, <<97, 97>>}
AppendOthers == {<<>>, <<98, 97>>}
CmpContents  == {<<>>, <<97>>, <<98>>, <<97, 97>>, <<97, 98>>, <<98, 97>>,
                 <<255>>, <<97, 0>>}

\* a buffer that holds bytes: bstring_new and one bstring_append_bytes
Holding(bytes) ==
    [bstring_new(Len(bytes) + 1).bstr EXCEPT !.chars = bytes, !.size = Len(bytes)]

(***************************************************************************)
(* The state of a run.                                                     *)
(***************************************************************************)
VARIABLES
    phase,      \* where the run is
    input,      \* the bytes handed to decode_bencode or torrent_file_new
    past,       \* the byte in memory just after the input
    za,         \* the allocator's answer to zero-byte requests
    un,         \* what storage never written holds
    result,     \* decode_bencode's parser and container
    encoded,    \* encode_bencode's byte count and target buffer
    again,      \* the parser and container of decoding the encoder's bytes
    made,       \* what torrent_file_new handed back
    digest,     \* the digest SHA1 gave
    request,    \* what get_tracker_response asked of the tracker
    base,       \* the bytes handed to url_new
    built,      \* the URL object, the last return code and what went wrong
    calls,      \* the <<key, value>> pairs appended with success, in order
    resp,       \* the tracker's answer so far and handle_data's last return
    wire,       \* the peer connection: what was sent, received and returned
    buf,        \* a BString under test and the bytes appended to it
    cli         \* the command line of a run of main, its trace and its exit

vars == <<phase, input, past, za, un, result, encoded, again,
          made, digest, request, base, built, calls, resp, wire, buf, cli>>

codecVars   == <<input, result, encoded, again>>
torrentVars == <<made>>
trackerVars == <<digest, request>>
urlVars     == <<base, built, calls>>
netVars     == <<resp, wire, buf>>
cliVars     == <<cli>>

NoResult  == DRes(parser_init, Blank)
NoEncoded == [nbytes |-> 0, target |-> <<>>]
NoMade    == NRes(TRes(TRUE, NoFile, F_NONE), FALSE, Blank)
NoRequest == TReq(FALSE, <<>>, F_NONE, FALSE)
NoBuilt   == [null |-> TRUE, url |-> NoURL, rc |-> URL_SUCCESS,
              fault |-> F_NONE, hang |-> FALSE]

NoResp    == [mem |-> [data |-> NoBString, ok |-> FALSE, ok_set |-> FALSE,
                       interval |-> 0,
                       peers |-> <<>>, peers_count |-> 0, peers_set |-> FALSE],
              ret |-> 0, appended |-> FALSE, status |-> PARSER_SUCCESS,
              fault |-> F_NONE, hang |-> FALSE, fed |-> 0,
              out |-> [null |-> TRUE, res_ok |-> FALSE, read_unset |-> FALSE,
                       live |-> {}]]
NoWire    == [conn |-> [sock |-> -1, attempted |-> FALSE, ip |-> <<>>, port |-> 0,
                        open |-> {}, fault |-> F_NONE],
              net |-> [send |-> 0, stream |-> <<>>, recvs |-> <<>>],
              info_hash |-> <<>>, peer_id |-> <<>>,
              shake |-> [null |-> TRUE, hang |-> FALSE]]
NoBuf     == [bstr |-> NoBString, rc |-> BSTRING_SUCCESS, fault |-> F_NONE,
              hang |-> FALSE, log |-> <<>>, appends |-> 0,
              other |-> <<>>, cmp |-> 0]

NoCli     == [command |-> "", argc |-> 0, readable |-> FALSE, peer_addr |-> <<>>,
              exit |-> -1, failed |-> FALSE, fault |-> F_NONE, trace |-> <<>>]

\* nothing but main has run yet
Idle ==
    /\ resp = NoResp
    /\ wire = NoWire
    /\ buf = NoBuf
    /\ past = Ch_NUL
    /\ un = UN_ZERO
    /\ result = NoResult
    /\ encoded = NoEncoded
    /\ again = NoResult
    /\ made = NoMade
    /\ digest = <<>>
    /\ request = NoRequest
    /\ built = NoBuilt
    /\ calls = <<>>

\* nothing has run yet
Untouched ==
    /\ cli = NoCli
    /\ Idle

Init ==
    /\ phase = "input"
    /\ input \in Inputs
    /\ za = ZA_UNIQUE
    /\ base = <<>>
    /\ Untouched

\* decode_bencode(&container, input, length) in some environment
Decode ==
    /\ phase = "input"
    /\ \E b \in PastBytes, z \in ZeroAllocs, u \in Uninits :
          /\ past' = b
          /\ za' = z
          /\ un' = u
          /\ result' = decode_bencode(Env(input, b, z, u), Blank)
    /\ phase' = "decoded"
    /\ UNCHANGED <<input, encoded, again, torrentVars, trackerVars, cliVars, urlVars>>
    /\ UNCHANGED netVars

\* encode_bencode(&container, target) after a decode that returned Success.
\* A run in which undefined behaviour happened is not followed further.
Encode ==
    /\ phase = "decoded"
    /\ result.p.state = PARSER_SUCCESS
    /\ result.p.fault = F_NONE
    /\ encoded' = encode_bencode(result.c)
    /\ phase' = "encoded"
    /\ UNCHANGED <<input, past, za, un, result, again,
                   torrentVars, trackerVars, cliVars, urlVars>>
    /\ UNCHANGED netVars

\* decode_bencode over the nbytes bytes the encoder wrote; the byte after
\* them is the zero byte the encoder stored.
Redecode ==
    /\ phase = "encoded"
    /\ again' = decode_bencode(
                   Env(SubSeq(encoded.target, 1, encoded.nbytes),
                       encoded.target[encoded.nbytes + 1], za, un), Blank)
    /\ phase' = "redecoded"
    /\ UNCHANGED <<input, past, za, un, result, encoded,
                   torrentVars, trackerVars, cliVars, urlVars>>
    /\ UNCHANGED netVars

Next == Decode \/ Encode \/ Redecode

Spec == Init /\ [][Next]_vars

(***************************************************************************)
(* The metainfo builder: torrent_file_new over the bytes of a file.  The   *)
(* byte after the file's bytes is whatever the buffer of size + 1 bytes    *)
(* held.                                                                   *)
(***************************************************************************)
InitTorrent ==
    /\ phase = "file"
    /\ input \in TorrentFiles
    /\ za = ZA_UNIQUE
    /\ base = <<>>
    /\ Untouched

TorrentFileNew ==
    /\ phase = "file"
    /\ \E b \in {Ch_NUL, Ch_e}, z \in ZeroAllocs, u \in Uninits :
          /\ past' = b
          /\ za' = z
          /\ un' = u
          /\ made' = torrent_file_new(Env(input, b, z, u), Blank)
    /\ phase' = "built"
    /\ UNCHANGED <<codecVars, trackerVars, cliVars, urlVars>>
    /\ UNCHANGED netVars

\* torrent_file_free(torrent) on the object torrent_file_new handed back
TorrentFileFree ==
    /\ phase = "built"
    /\ ~made.null
    /\ made.fault = F_NONE
    /\ made' = [made EXCEPT !.fault = torrent_file_free(made.file)]
    /\ phase' = "freed"
    /\ UNCHANGED <<codecVars, past, za, un, trackerVars, cliVars, urlVars>>
    /\ UNCHANGED netVars

NextTorrent == TorrentFileNew \/ TorrentFileFree

SpecTorrent == InitTorrent /\ [][NextTorrent]_vars

(***************************************************************************)
(* The tracker request of the peers command: decode_bencode over the       *)
(* bytes of the file, then get_tracker_response over the container.        *)
(***************************************************************************)
InitTracker ==
    /\ phase = "input"
    /\ input \in TrackerFiles
    /\ za = ZA_UNIQUE
    /\ base = <<>>
    /\ Untouched

GetTrackerResponse ==
    /\ phase = "decoded"
    /\ result.p.state = PARSER_SUCCESS
    /\ result.p.fault = F_NONE
    /\ \E sha \in Digests, junk \in Addresses, harmless \in BOOLEAN :
          /\ digest' = sha
          /\ request' = get_tracker_response(za, sha, junk, harmless, result.c)
    /\ phase' = "asked"
    /\ UNCHANGED <<codecVars, past, za, un, torrentVars, cliVars, urlVars>>
    /\ UNCHANGED netVars

NextTracker == Decode \/ GetTrackerResponse

SpecTracker == InitTracker /\ [][NextTracker]_vars

(***************************************************************************)
(* The URL builder: url_new over a base, then url_append_query_param any   *)
(* number of times up to MaxParams.  A call that does not return, or that  *)
(* ran into undefined behaviour, ends the run.                             *)
(***************************************************************************)
InitUrl ==
    /\ phase = "base"
    /\ base \in Bases
    /\ za \in ZeroAllocs
    /\ input = <<>>
    /\ Untouched

UrlNew ==
    /\ phase = "base"
    /\ LET r == url_new(za, base, Len(base))
       IN  built' = [null |-> r.null, url |-> r.url, rc |-> URL_SUCCESS,
                     fault |-> r.fault, hang |-> FALSE]
    /\ phase' = "url"
    /\ UNCHANGED <<codecVars, past, za, un, torrentVars, trackerVars, cliVars,
                   base, calls>>
    /\ UNCHANGED netVars

UrlAppendQueryParam ==
    /\ phase = "url"
    /\ ~built.null
    /\ ~built.hang
    /\ built.fault = F_NONE
    /\ Len(calls) < MaxParams
    /\ \E key \in ParamKeys, value \in ParamValues :
          LET r == url_append_query_param(za, built.url, key, value)
          IN  /\ built' = [null |-> FALSE, url |-> r.url, rc |-> r.rc,
                           fault |-> r.fault, hang |-> r.hang]
              /\ calls' = IF r.rc = URL_SUCCESS /\ ~r.hang /\ r.fault = F_NONE
                          THEN Append(calls, <<key, value>>)
                          ELSE calls
    /\ UNCHANGED <<codecVars, past, za, un, torrentVars, trackerVars, cliVars,
                   base, phase>>
    /\ UNCHANGED netVars

NextUrl == UrlNew \/ UrlAppendQueryParam

SpecUrl == InitUrl /\ [][NextUrl]_vars

(***************************************************************************)
(* The tracker's answer: get_tracker_response makes the aggregator, then   *)
(* curl calls handle_data with each piece of the body as it arrives, until *)
(* handle_data returns something other than the size of the piece.  A call *)
(* that ran into undefined behaviour ends the run.                         *)
(***************************************************************************)
InitFeed ==
    /\ phase = "request"
    /\ input \in ResponseBodies
    /\ za = ZA_UNIQUE
    /\ base = <<>>
    /\ Untouched

ResponseAggregator ==
    /\ phase = "request"
    /\ \E z \in ZeroAllocs, u \in Uninits :
          /\ za' = z
          /\ un' = u
          /\ resp' = [NoResp EXCEPT !.mem = response_aggregator(u)]
    /\ phase' = "transfer"
    /\ UNCHANGED <<codecVars, past, torrentVars, trackerVars, cliVars, urlVars, wire, buf>>

HandleData ==
    /\ phase = "transfer"
    /\ resp.fault = F_NONE
    /\ ~resp.hang
    /\ resp.fed = 0 \/ resp.ret # 0
    /\ resp.fed < Len(input)
    /\ \E n \in ChunkSizes \cup {Len(input) - resp.fed},
          b \in {Ch_NUL, Ch_e}, oom \in BOOLEAN :
          /\ n <= Len(input) - resp.fed
          /\ resp.fed + n <= MaxSplit \/ n >= 600
          /\ past' = b
          /\ \E r \in {handle_data(za, un, b, oom, resp.mem,
                                    SubSeq(input, resp.fed + 1, resp.fed + n))} :
                resp' = [mem |-> r.mem, ret |-> r.ret, appended |-> r.appended,
                         status |-> r.status, fault |-> r.fault,
                         hang |-> r.hang, fed |-> resp.fed + n,
                         out |-> resp.out]
    /\ UNCHANGED <<codecVars, phase, za, un, torrentVars, trackerVars, cliVars, urlVars,
                   wire, buf>>

(***************************************************************************)
(* The end of get_tracker_response: curl_easy_perform returns, with        *)
(* CURLE_OK (res_ok) only if every call of handle_data returned the size   *)
(* it was given; the transfer may end before the whole body came.  Then    *)
(* `res != CURLE_OK || !response_aggregator->ok`, which reads ok only when *)
(* res is CURLE_OK.  out is [null, res_ok, read_unset, live]: whether NULL *)
(* is returned, whether ok was read without ever having been assigned,     *)
(* and the allocations of the call that are not released when it returns   *)
(* NULL.                                                                   *)
(***************************************************************************)
GetTrackerResponseReturns ==
    /\ phase = "transfer"
    /\ resp.fault = F_NONE
    /\ ~resp.hang
    /\ \E res_ok \in BOOLEAN :
          /\ res_ok => (resp.fed = 0 \/ resp.ret # 0)
          /\ LET acquired == {"url", "escaped_hash", "response_aggregator",
                              "data", "curl", "url_str"}
                              \cup (IF resp.mem.peers_set THEN {"peers"} ELSE {})
                 released == {"url", "curl", "data", "response_aggregator"}
                 null     == ~res_ok \/ ~resp.mem.ok
             IN  resp' = [resp EXCEPT !.out =
                    [null |-> null, res_ok |-> res_ok,
                     read_unset |-> res_ok /\ ~resp.mem.ok_set,
                     live |-> IF null THEN acquired \ released ELSE {}]]
    /\ phase' = "answered"
    /\ UNCHANGED <<codecVars, past, za, un, torrentVars, trackerVars, cliVars, urlVars,
                   wire, buf>>

NextFeed == ResponseAggregator \/ HandleData \/ GetTrackerResponseReturns

SpecFeed == InitFeed /\ [][NextFeed]_vars

(***************************************************************************)
(* The handshake command: tcp_connect_inet_cstr over the peer address,     *)
(* then, with a socket, handshake with the info hash of the file and the   *)
(* client's peer id.                                                       *)
(***************************************************************************)
InitPeer ==
    /\ phase = "address"
    /\ input \in PeerAddresses
    /\ za = ZA_UNIQUE
    /\ base = <<>>
    /\ Untouched

TcpConnectInetCstr ==
    /\ phase = "address"
    /\ \E reachable \in BOOLEAN, harmless \in BOOLEAN :
          wire' = [wire EXCEPT
                     !.conn = tcp_connect_inet_cstr(input, reachable, harmless)]
    /\ phase' = "connection"
    /\ UNCHANGED <<codecVars, past, za, un, torrentVars, trackerVars, cliVars, urlVars,
                   resp, buf>>

Handshake ==
    /\ phase = "connection"
    /\ wire.conn.sock >= 0
    /\ \E info_hash \in Digests, send \in SendResults, recvs \in RecvScripts :
          \E stream \in Streams(header_bytes(
                          [pstrlen |-> 19, proto_name |-> Lit_protocol,
                           reserved |-> [k \in 1..8 |-> 0],
                           info_hash |-> info_hash, peer_id |-> Lit_client_id])) :
          \E net \in {[send |-> send, stream |-> stream, recvs |-> recvs]} :
             wire' = [wire EXCEPT !.net = net,
                                  !.info_hash = info_hash,
                                  !.peer_id = Lit_client_id,
                                  !.shake = handshake(net, info_hash, Lit_client_id)]
    /\ phase' = "handshake"
    /\ UNCHANGED <<codecVars, past, za, un, torrentVars, trackerVars, cliVars, urlVars,
                   resp, buf>>

NextPeer == TcpConnectInetCstr \/ Handshake

SpecPeer == InitPeer /\ [][NextPeer]_vars

(***************************************************************************)
(* The byte buffer: bstring_new, then appends while they succeed, then     *)
(* bstring_cmp with another buffer.  log is the bytes handed to the        *)
(* appends that returned BSTRING_SUCCESS, in order.                        *)
(***************************************************************************)
InitBString ==
    /\ phase = "nothing"
    /\ input = <<>>
    /\ za \in ZeroAllocs
    /\ base = <<>>
    /\ Untouched

BstringNew ==
    /\ phase = "nothing"
    /\ \E capacity \in Capacities :
          buf' = [NoBuf EXCEPT !.bstr = bstring_new(capacity).bstr]
    /\ phase' = "buffer"
    /\ UNCHANGED <<codecVars, past, za, un, torrentVars, trackerVars, cliVars, urlVars,
                   resp, wire>>

\* what an append leaves in buf
Appended(r, bytes) ==
    [buf EXCEPT !.bstr = r.bstr, !.rc = r.rc, !.fault = r.fault, !.hang = r.hang,
                !.appends = buf.appends + 1,
                !.log = IF r.rc = BSTRING_SUCCESS /\ ~r.hang /\ r.fault = F_NONE
                        THEN buf.log \o bytes ELSE buf.log]

Appendable ==
    /\ phase = "buffer"
    /\ buf.rc = BSTRING_SUCCESS
    /\ ~buf.hang
    /\ buf.fault = F_NONE
    /\ buf.appends < MaxAppends

BstringAppendChar ==
    /\ Appendable
    /\ \E c \in AppendChars :
          buf' = Appended(bstring_append_char(za, buf.bstr, c), <<c>>)
    /\ UNCHANGED <<codecVars, phase, past, za, un, torrentVars, trackerVars, cliVars,
                   urlVars, resp, wire>>

BstringAppendBytes ==
    /\ Appendable
    /\ \E bytes \in AppendBytes :
          buf' = Appended(bstring_append_bytes(za, buf.bstr, bytes), bytes)
    /\ UNCHANGED <<codecVars, phase, past, za, un, torrentVars, trackerVars, cliVars,
                   urlVars, resp, wire>>

BstringAppendCstr ==
    /\ Appendable
    /\ \E cstr \in AppendCstrs :
          buf' = Appended(bstring_append_cstr(za, buf.bstr, cstr), cstr)
    /\ UNCHANGED <<codecVars, phase, past, za, un, torrentVars, trackerVars, cliVars,
                   urlVars, resp, wire>>

BstringAppendBstring ==
    /\ Appendable
    /\ \E bytes \in AppendOthers :
          buf' = Appended(bstring_append_bstring(za, buf.bstr, Holding(bytes)),
                          bytes)
    /\ UNCHANGED <<codecVars, phase, past, za, un, torrentVars, trackerVars, cliVars,
                   urlVars, resp, wire>>

BstringCmp ==
    /\ phase = "buffer"
    /\ buf.rc = BSTRING_SUCCESS
    /\ ~buf.hang
    /\ buf.fault = F_NONE
    /\ \E bytes \in CmpContents :
          buf' = [buf EXCEPT !.other = bytes,
                             !.cmp = bstring_cmp(buf.bstr, Holding(bytes))]
    /\ phase' = "compared"
    /\ UNCHANGED <<codecVars, past, za, un, torrentVars, trackerVars, cliVars, urlVars,
                   resp, wire>>

NextBString ==
    \/ BstringNew
    \/ BstringAppendChar
    \/ BstringAppendBytes
    \/ BstringAppendCstr
    \/ BstringAppendBstring
    \/ BstringCmp

SpecBString == InitBString /\ [][NextBString]_vars

(***************************************************************************)
(* The command line (main.c).  print_info and print_torrent_meta return    *)
(* nothing; here they give [err, exited, fault]: whether a message that    *)
(* starts with ERR went to stderr, whether exit(1) was called, and the     *)
(* undefined behaviour met.  A store past an allocation (hash_bencoded)    *)
(* either does no harm or ends the run: harmless says which.               *)
(***************************************************************************)
F_NULL == "null_dereference"       \* a read through a null pointer

Said(err, exited, fault) == [err |-> err, exited |-> exited, fault |-> fault]

print_info(sha, harmless, info) ==
    LET length       == get_dict_key(info, Key_length)
        h            == hash_bencoded(sha, info)
        piece_length == get_dict_key(info, Key_piece_length)
        pieces       == get_dict_key(info, Key_pieces)
    IN  IF info.type # BT_DICTIONARY THEN Said(TRUE, FALSE, F_NONE)
        ELSE IF length.null THEN Said(TRUE, FALSE, F_NONE)
        ELSE IF length.at.type # BT_INTEGER THEN Said(TRUE, FALSE, F_NONE)
        ELSE IF h.fault # F_NONE /\ ~harmless THEN Said(FALSE, FALSE, h.fault)
        ELSE IF ~h.ok THEN Said(TRUE, FALSE, F_NONE)
        ELSE IF piece_length.null THEN Said(TRUE, FALSE, F_NONE)
        ELSE IF piece_length.at.type # BT_INTEGER THEN Said(TRUE, FALSE, F_NONE)
        ELSE IF pieces.null THEN Said(TRUE, FALSE, F_NONE)
        ELSE IF pieces.at.type # BT_STRING THEN Said(TRUE, FALSE, F_NONE)
        ELSE IF pieces.at.string.size % SHA_DIGEST_LENGTH # 0
        THEN Said(TRUE, FALSE, F_NONE)
        ELSE Said(FALSE, FALSE, F_NONE)

\* print_tracker_url: a message when announce is not a string
print_tracker_url(announce) == Said(announce.type # BT_STRING, FALSE, F_NONE)

print_torrent_meta(sha, harmless, torrent) ==
    LET announce == get_dict_key(torrent, Key_announce)
        info     == get_dict_key(torrent, Key_info)
        u        == print_tracker_url(announce.at)
        r        == print_info(sha, harmless, info.at)
    IN  IF torrent.type # BT_DICTIONARY THEN Said(TRUE, TRUE, F_NONE)
        ELSE IF announce.null THEN Said(TRUE, FALSE, F_NONE)
        ELSE IF info.null THEN Said(TRUE, FALSE, F_NONE)
        ELSE Said(u.err \/ r.err, FALSE, r.fault)

\* get_info_hash: the digest of the value under "info", or NULL
get_info_hash(sha, torrent) ==
    LET info == get_dict_key(torrent, Key_info)
        h    == hash_bencoded(sha, info.at)
    IN  IF info.null
        THEN [null |-> TRUE, chars |-> <<>>, fault |-> F_NONE]
        ELSE [null |-> FALSE, chars |-> h.hash, fault |-> h.fault]

(***************************************************************************)
(* Inputs of main: the command word, argc, whether the file at the path    *)
(* can be read, its bytes (argv[2] itself for decode), and for handshake   *)
(* the peer address.  The files are metainfo dictionaries with each key    *)
(* present, absent or of the wrong kind, and a few texts that are not      *)
(* dictionaries or do not decode.                                          *)
(***************************************************************************)
Commands == {"decode", "info", "peers", "handshake", "download_piece"}
MaxArgc  == 6
Argcs    == 2..MaxArgc

MainFiles ==
    LET Announces    == {<<>>, BInt(0), AnnounceText}
        Lengths      == {<<>>, BStr(<<97>>), BInt(5)}
        PieceLengths2 == {<<>>, BInt(DEFAULT_BLOCK_SIZE)}
        Hashes       == {<<>>, BStr([j \in 1..(SHA_DIGEST_LENGTH - 1) |-> j]),
                         BStr([j \in 1..SHA_DIGEST_LENGTH |-> j])}
        Infos        == {<<>>, BInt(0)}
                        \cup { BDict(Entry(Key_length, l)
                                     \o Entry(Key_name, BStr(<<97>>))
                                     \o Entry(Key_piece_length, pl)
                                     \o Entry(Key_pieces, ps)) :
                                 l \in Lengths, pl \in PieceLengths2, ps \in Hashes }
    IN  { BDict(Entry(Key_announce, a) \o Entry(Key_info, i)) :
            a \in Announces, i \in Infos }
        \cup {<<>>, BInt(0), BStr(<<97>>), <<Ch_i, Ch_e>>, <<Ch_i, Ch_0>>,
              <<Ch_l>>, <<Ch_l, Ch_e>>, <<97>>}

MainPeerAddresses ==
    { <<>>,
      <<49, 48, 46, 48, 46, 48, 46, 49, 58, 54, 56, 56, 49>>,    \* 10.0.0.1:6881
      <<49, 48, 46, 48, 46, 48, 46, 49>>,                        \* 10.0.0.1
      <<49, 48, 48, 46, 49, 48, 48, 46, 49, 48, 48, 46, 49, 48, 48, 58, 49>> }

MainSends == {-1, 10, 68}

\* what happened in a run, in order
Ev(op, bytes) == [op |-> op, bytes |-> bytes]

\* the run ends: main returns code or exit(code) is called, or undefined
\* behaviour ends it
Ended(code, failed, fault) ==
    [cli EXCEPT !.exit = IF fault = F_NONE THEN code ELSE -1,
                !.failed = failed, !.fault = fault]

After(fault) == IF fault = F_NONE THEN "exited" ELSE "aborted"

InitMain ==
    /\ phase = "start"
    /\ input \in MainFiles
    /\ za = ZA_UNIQUE
    /\ base = <<>>
    /\ Idle
    /\ \E command \in Commands \cup {"other"}, argc \in Argcs,
          readable \in BOOLEAN, peer_addr \in MainPeerAddresses :
          /\ command # "handshake" => peer_addr = <<>>
          /\ cli = [NoCli EXCEPT !.command = command, !.argc = argc,
                                 !.readable = readable, !.peer_addr = peer_addr]

\* main, lines 199 to 205 and the argc tests and the last else of the
\* dispatch
MainArgs ==
    /\ phase = "start"
    /\ LET usage == \/ cli.argc < 3
                    \/ cli.command \notin Commands
                    \/ cli.command = "handshake" /\ cli.argc < 4
                    \/ cli.command = "download_piece" /\ cli.argc < 5
       IN  /\ cli' = IF usage THEN Ended(1, TRUE, F_NONE) ELSE cli
           /\ phase' = IF usage THEN "exited"
                       ELSE IF cli.command = "decode" THEN "contents"
                       ELSE "path"
    /\ UNCHANGED <<codecVars, past, za, un, torrentVars, trackerVars, urlVars>>
    /\ UNCHANGED netVars

\* read_file and the test of its result.  download_piece first prints
\* argv[5], which is the null pointer that ends argv when argc is 5.
MainReadFile ==
    /\ phase = "path"
    /\ \E harmless \in BOOLEAN :
          LET fault == IF cli.command = "download_piece" /\ cli.argc = 5
                          /\ ~harmless
                       THEN F_NULL ELSE F_NONE
              unread == ~cli.readable \/ Len(input) = 0
          IN  /\ cli' = IF fault # F_NONE THEN Ended(1, FALSE, fault)
                        ELSE IF unread THEN Ended(1, TRUE, F_NONE)
                        ELSE cli
              /\ phase' = IF fault # F_NONE THEN "aborted"
                          ELSE IF unread THEN "exited"
                          ELSE IF cli.command = "download_piece" THEN "torrent"
                          ELSE "contents"
    /\ UNCHANGED <<codecVars, past, za, un, torrentVars, trackerVars, urlVars>>
    /\ UNCHANGED netVars

\* decode_bencode and the test of its result; the decode command then
\* prints the value, frees it and returns 0.  argv[2] ends with a zero
\* byte; the buffer of a file has one more byte than the file, never
\* written.
MainDecode ==
    /\ phase = "contents"
    /\ \E b \in {Ch_NUL, Ch_e}, z \in ZeroAllocs, u \in Uninits :
          /\ cli.command = "decode" => b = Ch_NUL
          /\ past' = b
          /\ za' = z
          /\ un' = u
          /\ \E r \in {decode_bencode(
                         Env(IF cli.command = "decode" THEN CStr(input) ELSE input,
                             b, z, u), Blank)} :
                /\ result' = r
                /\ IF r.p.fault # F_NONE
                   THEN /\ cli' = Ended(1, FALSE, r.p.fault)
                        /\ phase' = "aborted"
                   ELSE IF r.p.state # PARSER_SUCCESS
                   THEN /\ cli' = Ended(1, TRUE, F_NONE)
                        /\ phase' = "exited"
                   ELSE IF cli.command = "decode"
                   THEN /\ cli' = Ended(0, FALSE, free_bencoded_inner(u, r.c))
                        /\ phase' = After(free_bencoded_inner(u, r.c))
                   ELSE /\ cli' = cli
                        /\ phase' = "command"
    /\ UNCHANGED <<input, encoded, again, torrentVars, trackerVars, urlVars>>
    /\ UNCHANGED netVars

\* the info command: print_torrent_meta, free_bencoded_inner, return 0
MainInfo ==
    /\ phase = "command"
    /\ cli.command = "info"
    /\ \E sha \in Digests, harmless \in BOOLEAN :
          \E r \in {print_torrent_meta(sha, harmless, result.c)} :
             \E fault \in {IF r.fault # F_NONE \/ r.exited THEN r.fault
                           ELSE free_bencoded_inner(un, result.c)} :
                /\ digest' = sha
                /\ cli' = Ended(IF r.exited THEN 1 ELSE 0, r.err, fault)
                /\ phase' = After(fault)
    /\ UNCHANGED <<codecVars, past, za, un, torrentVars, request, urlVars>>
    /\ UNCHANGED netVars

(***************************************************************************)
(* The peers command: get_tracker_response, then `res->ok` read through    *)
(* the pointer it gave.  When the request is made the tracker's answer is  *)
(* good or not (answered); a null res is read through all the same.        *)
(***************************************************************************)
MainPeers ==
    /\ phase = "command"
    /\ cli.command = "peers"
    /\ \E sha \in Digests, junk \in Addresses, harmless \in BOOLEAN,
          answered \in BOOLEAN :
          \E q \in {get_tracker_response(za, sha, junk, harmless, result.c)} :
             LET res_null == ~q.requested \/ ~answered
                 trace    == IF q.requested
                             THEN Append(cli.trace, Ev("tracker", q.url_str))
                             ELSE cli.trace
             IN  /\ digest' = sha
                 /\ request' = q
                 /\ IF q.fault # F_NONE
                    THEN /\ cli' = Ended(1, FALSE, q.fault)
                         /\ phase' = "aborted"
                    ELSE IF q.hang
                    THEN /\ cli' = cli
                         /\ phase' = "hung"
                    ELSE IF res_null
                    THEN /\ cli' = [Ended(1, TRUE, F_NULL) EXCEPT !.trace = trace]
                         /\ phase' = "aborted"
                    ELSE /\ cli' = [Ended(0, FALSE, F_NONE) EXCEPT !.trace = trace]
                         /\ phase' = "exited"
    /\ UNCHANGED <<codecVars, past, za, un, torrentVars, urlVars>>
    /\ UNCHANGED netVars

(***************************************************************************)
(* The handshake command: tcp_connect_inet_cstr, get_info_hash, whose      *)
(* result is read through whether null or not, handshake, and the test of  *)
(* the header.                                                             *)
(***************************************************************************)
MainHandshake ==
    /\ phase = "command"
    /\ cli.command = "handshake"
    /\ \E reachable \in BOOLEAN, harmless \in BOOLEAN, sha \in Digests,
          send \in MainSends :
          \E conn \in {tcp_connect_inet_cstr(cli.peer_addr, reachable, harmless)},
             info_hash \in {get_info_hash(sha, result.c)} :
          \E frame \in {header_bytes(
                          [pstrlen |-> 19, proto_name |-> Lit_protocol,
                           reserved |-> [k \in 1..8 |-> 0],
                           info_hash |-> sha, peer_id |-> Lit_client_id])} :
          \E stream \in {frame, <<>>, [frame EXCEPT ![2] = 98]} :
          \E net \in {[send |-> send, stream |-> stream, recvs |-> <<>>]} :
             LET connected == Append(cli.trace, Ev("connect", cli.peer_addr))
             IN  /\ digest' = sha
                 /\ IF conn.fault # F_NONE
                    THEN /\ wire' = [wire EXCEPT !.conn = conn]
                         /\ cli' = Ended(1, FALSE, conn.fault)
                         /\ phase' = "aborted"
                    ELSE IF conn.sock < 0
                    THEN /\ wire' = [wire EXCEPT !.conn = conn]
                         /\ cli' = Ended(1, TRUE, F_NONE)
                         /\ phase' = "exited"
                    ELSE IF info_hash.null
                    THEN /\ wire' = [wire EXCEPT !.conn = conn]
                         /\ cli' = [Ended(1, TRUE, F_NULL) EXCEPT
                                      !.trace = connected]
                         /\ phase' = "aborted"
                    ELSE IF info_hash.fault # F_NONE /\ ~harmless
                    THEN /\ wire' = [wire EXCEPT !.conn = conn]
                         /\ cli' = [Ended(1, FALSE, info_hash.fault) EXCEPT
                                      !.trace = connected]
                         /\ phase' = "aborted"
                    ELSE \E header \in {handshake(net, info_hash.chars,
                                                  Lit_client_id)} :
                         \E sent \in {IF net.send < 0 THEN connected
                                       ELSE Append(connected,
                                                   Ev("send", header.sent))} :
                         /\ wire' = [wire EXCEPT !.conn = conn, !.net = net,
                                        !.info_hash = info_hash.chars,
                                        !.peer_id = Lit_client_id,
                                        !.shake = header]
                         /\ cli' = IF header.hang
                                   THEN [cli EXCEPT !.trace = sent]
                                   ELSE [Ended(IF header.null THEN 1 ELSE 0,
                                               header.null, F_NONE)
                                           EXCEPT !.trace = sent]
                         /\ phase' = IF header.hang THEN "hung" ELSE "exited"
    /\ UNCHANGED <<codecVars, past, za, un, torrentVars, request, urlVars,
                   resp, buf>>

\* the download_piece command: torrent_file_new, print_torrent_file,
\* torrent_file_free, return 0
MainDownloadPiece ==
    /\ phase = "torrent"
    /\ \E b \in {Ch_NUL, Ch_e}, z \in ZeroAllocs, u \in Uninits :
          /\ past' = b
          /\ za' = z
          /\ un' = u
          /\ \E t \in {torrent_file_new(Env(input, b, z, u), Blank)} :
             \E fault \in {IF t.fault # F_NONE \/ t.null THEN t.fault
                           ELSE torrent_file_free(t.file)} :
                /\ made' = t
                /\ cli' = Ended(IF t.null THEN 1 ELSE 0, t.null, fault)
                /\ phase' = After(fault)
    /\ UNCHANGED <<codecVars, trackerVars, urlVars>>
    /\ UNCHANGED netVars

NextMain ==
    \/ MainArgs
    \/ MainReadFile
    \/ MainDecode
    \/ MainInfo
    \/ MainPeers
    \/ MainHandshake
    \/ MainDownloadPiece

SpecMain == InitMain /\ [][NextMain]_vars

(***************************************************************************)
(* The bencode grammar (BEP 3), as a recogniser over bytes that owes       *)
(* nothing to the decoder.  GValue(src, pos, ordered) is the offset just   *)
(* after the value that starts at offset pos, or -1 when none does.  With  *)
(* ordered, dictionary keys must be strictly ascending; without, any       *)
(* order of keys passes.                                                   *)
(***************************************************************************)
RECURSIVE DigitsEnd(_, _)
DigitsEnd(src, pos) ==
    IF pos < Len(src) /\ is_digit(src[pos + 1]) THEN DigitsEnd(src, pos + 1) ELSE pos

RECURSIVE DigitsValue(_, _, _)
DigitsValue(src, from, to) ==
    IF to <= from THEN 0
    ELSE 10 * DigitsValue(src, from, to - 1) + (src[to] - Ch_0)

\* a decimal number at offsets pos..q-1 without needless leading zero
Canonical(src, pos, q) == q > pos /\ (src[pos + 1] # Ch_0 \/ q = pos + 1)

\* a byte string at pos: [end, from, to], its bytes being src[from..to]
GString(src, pos) ==
    LET q == DigitsEnd(src, pos)
        n == DigitsValue(src, pos, q)
    IN  IF /\ Canonical(src, pos, q)
           /\ q < Len(src)
           /\ src[q + 1] = Ch_COLON
           /\ q + 1 + n <= Len(src)
        THEN [end |-> q + 1 + n, bytes |-> SubSeq(src, q + 2, q + 1 + n)]
        ELSE [end |-> -1, bytes |-> <<>>]

GInteger(src, pos) ==
    LET neg == pos + 1 < Len(src) /\ src[pos + 2] = Ch_MINUS
        f   == IF neg THEN pos + 2 ELSE pos + 1
        q   == DigitsEnd(src, f)
    IN  IF /\ Canonical(src, f, q)
           /\ ~(neg /\ src[f + 1] = Ch_0)
           /\ q < Len(src)
           /\ src[q + 1] = Ch_e
        THEN q + 1
        ELSE -1

\* byte-wise lexicographic order; a proper prefix is less
LexLess(a, b) ==
    \/ Len(a) < Len(b) /\ SubSeq(b, 1, Len(a)) = a
    \/ \E k \in 1..Len(a) :
          /\ k <= Len(b)
          /\ SubSeq(a, 1, k - 1) = SubSeq(b, 1, k - 1)
          /\ a[k] < b[k]

RECURSIVE GValue(_, _, _)
RECURSIVE GList(_, _, _)
RECURSIVE GDict(_, _, _, _)

GList(src, pos, ordered) ==
    IF pos >= Len(src) THEN -1
    ELSE IF src[pos + 1] = Ch_e THEN pos + 1
    ELSE LET q == GValue(src, pos, ordered)
         IN  IF q < 0 THEN -1 ELSE GList(src, q, ordered)

\* prev is <<>> before the first key and <<key>> after a key
GDict(src, pos, ordered, prev) ==
    IF pos >= Len(src) THEN -1
    ELSE IF src[pos + 1] = Ch_e THEN pos + 1
    ELSE LET k == GString(src, pos)
             q == GValue(src, k.end, ordered)
         IN  IF k.end < 0 \/ q < 0 THEN -1
             ELSE IF ordered /\ prev # <<>> /\ ~LexLess(prev[1], k.bytes) THEN -1
             ELSE GDict(src, q, ordered, <<k.bytes>>)

GValue(src, pos, ordered) ==
    IF pos < 0 \/ pos >= Len(src) THEN -1
    ELSE IF is_digit(src[pos + 1]) THEN GString(src, pos).end
    ELSE IF src[pos + 1] = Ch_i THEN GInteger(src, pos)
    ELSE IF src[pos + 1] = Ch_l THEN GList(src, pos + 1, ordered)
    ELSE IF src[pos + 1] = Ch_d THEN GDict(src, pos + 1, ordered, <<>>)
    ELSE -1

\* bytes that are exactly one well-formed value
WellFormed(src) == GValue(src, 0, TRUE) = Len(src)

\* well-formed but for the order of the keys of some dictionary
KeysOutOfOrder(src) == GValue(src, 0, FALSE) = Len(src) /\ ~WellFormed(src)

WellFormedInputs == { t \in Inputs : WellFormed(t) }

IsPrefix(a, b) == Len(a) <= Len(b) /\ SubSeq(b, 1, Len(a)) = a

\* B1 of some split B = B1 || B2 of a well-formed input B
SplitOfWellFormed(src) == \E t \in WellFormedInputs : IsPrefix(src, t)

Decoded == phase # "input"
Status  == result.p.state
Written == SubSeq(encoded.target, 1, encoded.nbytes)

(***************************************************************************)
(* C1.  Round trip: for every well-formed input B, decode_bencode returns  *)
(* Success, encode_bencode of the tree writes exactly the bytes of B, and  *)
(* decoding those bytes again gives an equal tree.                         *)
(* The code does not do this for a B that holds an empty byte string:      *)
(* where realloc(p, 0) frees p and returns NULL, bstring_append_bytes      *)
(* frees the buffer a second time and the decoder hands on a dead buffer.  *)
(***************************************************************************)
C1_RoundTrip ==
    WellFormed(input) =>
        /\ Decoded => Status = PARSER_SUCCESS /\ result.p.fault = F_NONE
        /\ phase \in {"encoded", "redecoded"} =>
              encoded.nbytes = Len(input) /\ Written = input
        /\ phase = "redecoded" =>
              again.p.state = PARSER_SUCCESS /\ again.c = result.c

(***************************************************************************)
(* C2.  Incremental decoding: for every split B = B1 || B2 of a            *)
(* well-formed input B, decode_bencode(B1) returns Success (only when B1   *)
(* is a complete value) or Partial, never Syntax.                          *)
(* The code reads the byte after the input when B1 ends where a value or   *)
(* the closing 'e' is due, and answers Syntax unless that byte happens to  *)
(* start a value.                                                          *)
(***************************************************************************)
C2_SplitNeverSyntax ==
    Decoded /\ SplitOfWellFormed(input) =>
        /\ Status \in {PARSER_SUCCESS, PARSER_ERR_PARTIAL}
        /\ Status = PARSER_SUCCESS => WellFormed(input)

(***************************************************************************)
(* C3.  On every Success the encoded_length of the top-level value is the  *)
(* number of input bytes consumed, and the encoded_length of every nested  *)
(* list element and dictionary value is the number of input bytes that     *)
(* value occupies.  Occupies(src, pos, b) walks the input from offset pos  *)
(* by the lengths recorded in b and checks them against the bytes found.   *)
(***************************************************************************)
RECURSIVE Occupies(_, _, _)
RECURSIVE ListOccupies(_, _, _, _)
RECURSIVE DictOccupies(_, _, _, _)

\* elements k.. lie one after another from pos and end at offset end
ListOccupies(src, pos, elements, k) ==
    IF k > Len(elements) THEN [ok |-> TRUE, end |-> pos]
    ELSE IF ~Occupies(src, pos, elements[k]) THEN [ok |-> FALSE, end |-> pos]
    ELSE ListOccupies(src, pos + elements[k].encoded_length, elements, k + 1)

\* a key written at pos: its digits, the colon and its bytes
KeyEnd(src, pos, key) ==
    LET q == DigitsEnd(src, pos)
    IN  IF /\ q > pos
           /\ q + 1 + key.size <= Len(src)
           /\ src[q + 1] = Ch_COLON
           /\ SubSeq(src, q + 2, q + 1 + key.size) = key.chars
        THEN q + 1 + key.size
        ELSE -1

DictOccupies(src, pos, elements, k) ==
    IF k > Len(elements) THEN [ok |-> TRUE, end |-> pos]
    ELSE LET v == KeyEnd(src, pos, elements[k].key)
         IN  IF v < 0 \/ ~Occupies(src, v, elements[k].value)
             THEN [ok |-> FALSE, end |-> pos]
             ELSE DictOccupies(src, v + elements[k].value.encoded_length,
                               elements, k + 1)

Occupies(src, pos, b) ==
    LET last == pos + b.encoded_length
    IN  /\ b.encoded_length >= 2
        /\ last <= Len(src)
        /\ IF b.type = BT_INTEGER
           THEN src[pos + 1] = Ch_i /\ src[last] = Ch_e
                /\ \A k \in (pos + 2)..(last - 1) : src[k] # Ch_e
           ELSE IF b.type = BT_STRING
           THEN KeyEnd(src, pos, b.string) = last
           ELSE IF b.type = BT_LIST
           THEN LET r == ListOccupies(src, pos + 1, b.list, 1)
                IN  src[pos + 1] = Ch_l /\ r.ok /\ r.end + 1 = last
                    /\ src[last] = Ch_e
           ELSE IF b.type = BT_DICTIONARY
           THEN LET r == DictOccupies(src, pos + 1, b.dictionary, 1)
                IN  src[pos + 1] = Ch_d /\ r.ok /\ r.end + 1 = last
                    /\ src[last] = Ch_e
           ELSE FALSE

C3_EncodedLength ==
    Decoded /\ Status = PARSER_SUCCESS =>
        /\ result.c.encoded_length = result.p.position
        /\ Occupies(input, 0, result.c)

\* a Success whose tree has a dictionary value that is a list with an element
C3_Witness ==
    /\ Decoded /\ Status = PARSER_SUCCESS
    /\ result.c.type = BT_DICTIONARY
    /\ \E k \in 1..Len(result.c.dictionary) :
          /\ result.c.dictionary[k].value.type = BT_LIST
          /\ Len(result.c.dictionary[k].value.list) >= 1

(***************************************************************************)
(* C4.  Integer grammar: an integer whose digits are "-0", or that has a   *)
(* leading zero on a nonzero value, is answered with Syntax and no value.  *)
(* The code takes whatever strtol takes: i-0e is 0 and i03e is 3.          *)
(***************************************************************************)
MalformedInteger(src) ==
    /\ Len(src) >= 4
    /\ src[1] = Ch_i
    /\ src[Len(src)] = Ch_e
    /\ LET neg == src[2] = Ch_MINUS
           f   == IF neg THEN 2 ELSE 1
       IN  /\ DigitsEnd(src, f) = Len(src) - 1
           /\ src[f + 1] = Ch_0
           /\ (neg /\ Len(src) = 4) \/ DigitsValue(src, f, Len(src) - 1) # 0

C4_IntegerGrammar ==
    Decoded /\ MalformedInteger(input) =>
        Status = PARSER_ERR_SYNTAX /\ ~result.c.constructed

(***************************************************************************)
(* C5.  Dictionary ordering: after a Success the keys of every dictionary  *)
(* of the tree are strictly ascending by byte comparison, and an input     *)
(* whose dictionary keys are out of order or duplicated is answered with   *)
(* Syntax.  The code compares no key with another.                         *)
(***************************************************************************)
RECURSIVE KeysAscending(_)
KeysAscending(b) ==
    IF b.type = BT_LIST
    THEN \A k \in 1..Len(b.list) : KeysAscending(b.list[k])
    ELSE IF b.type = BT_DICTIONARY
    THEN /\ \A k \in 1..(Len(b.dictionary) - 1) :
               LexLess(b.dictionary[k].key.chars, b.dictionary[k + 1].key.chars)
         /\ \A k \in 1..Len(b.dictionary) : KeysAscending(b.dictionary[k].value)
    ELSE TRUE

C5_DictionaryOrdering ==
    Decoded =>
        /\ Status = PARSER_SUCCESS => KeysAscending(result.c)
        /\ KeysOutOfOrder(input) => Status = PARSER_ERR_SYNTAX

(***************************************************************************)
(* What the claims about the metainfo object speak of.  The value of a key *)
(* of a dictionary is found here by its bytes, without get_dict_key; the   *)
(* files of TorrentFiles and TrackerFiles repeat no key.                   *)
(***************************************************************************)
HasKey(d, key) ==
    d.type = BT_DICTIONARY
    /\ \E k \in 1..Len(d.dictionary) : d.dictionary[k].key.chars = key

ValueOf(d, key) ==
    d.dictionary[CHOOSE k \in 1..Len(d.dictionary) :
                    d.dictionary[k].key.chars = key].value

HasKind(d, key, type) == HasKey(d, key) /\ ValueOf(d, key).type = type

\* torrent_file_from_bcoded handed back an object
Built == phase = "built" /\ made.given /\ ~made.null /\ made.fault = F_NONE

Ceil(a, b) == (a + b - 1) \div b

\* the size of the last of the parts of size part that make up total
LastPart(total, part) == IF total % part # 0 THEN total % part ELSE part

RECURSIVE SumOfSizes(_, _)
SumOfSizes(parts, k) ==
    IF k > Len(parts) THEN 0 ELSE parts[k].size + SumOfSizes(parts, k + 1)

(***************************************************************************)
(* C6.  Piece layout: for every metainfo object that                       *)
(* torrent_file_from_bcoded builds, num_pieces is                          *)
(* ceil(total_size / piece_length), every piece but the last has size      *)
(* piece_length, the last has size total_size mod piece_length if that is  *)
(* not zero and piece_length otherwise, piece i has index i and the bytes  *)
(* [20*i, 20*i + 20) of the pieces string as its hash, and the sizes add   *)
(* up to total_size.                                                       *)
(* The code takes num_pieces from the length of the pieces string alone    *)
(* and builds the object whatever "length" and "piece length" say.         *)
(***************************************************************************)
C6_PieceLayout ==
    Built =>
        LET f      == made.file
            n      == f.num_pieces
            hashes == ValueOf(made.info_dict, Key_pieces).string.chars
        IN  /\ f.piece_length > 0
            /\ n = Ceil(f.file_size, f.piece_length)
            /\ Len(f.pieces) = n
            /\ \A i \in 0..(n - 1) :
                  /\ f.pieces[i + 1].index = i
                  /\ f.pieces[i + 1].size =
                        IF i < n - 1 THEN f.piece_length
                        ELSE LastPart(f.file_size, f.piece_length)
                  /\ f.pieces[i + 1].hash = SubSeq(hashes, 20 * i + 1, 20 * i + 20)
            /\ SumOfSizes(f.pieces, 1) = f.file_size

(***************************************************************************)
(* C7.  Block layout: for every piece initialised by piece_init_blocks,    *)
(* block_count is ceil(size / 16384), block b has offset b * 16384, every  *)
(* block but the last has size 16384, the last has size size mod 16384 if  *)
(* that is not zero and 16384 otherwise, and the sizes of the blocks add   *)
(* up to the size of the piece.                                            *)
(***************************************************************************)
BlocksLaidOut(piece) ==
    LET n == piece.block_count
    IN  /\ n = Ceil(piece.size, DEFAULT_BLOCK_SIZE)
        /\ Len(piece.blocks) = n
        /\ \A b \in 0..(n - 1) :
              /\ piece.blocks[b + 1].offset = b * DEFAULT_BLOCK_SIZE
              /\ piece.blocks[b + 1].size =
                    IF b < n - 1 THEN DEFAULT_BLOCK_SIZE
                    ELSE LastPart(piece.size, DEFAULT_BLOCK_SIZE)
        /\ SumOfSizes(piece.blocks, 1) = piece.size

C7_BlockLayout ==
    Built => \A i \in 1..Len(made.file.pieces) : BlocksLaidOut(made.file.pieces[i])

\* an object with a piece of three blocks, the last one short, and a piece
\* of a single block
C7_Witness ==
    /\ Built
    /\ \E i \in 1..Len(made.file.pieces) :
          /\ made.file.pieces[i].block_count = 3
          /\ made.file.pieces[i].blocks[3].size < DEFAULT_BLOCK_SIZE
    /\ \E i \in 1..Len(made.file.pieces) : made.file.pieces[i].block_count = 1

(***************************************************************************)
(* C8.  Failure modes of the metainfo builder: torrent_file_from_bcoded    *)
(* returns NULL whenever "length" is missing or not an integer, "name" is  *)
(* missing or not a byte string, "piece length" is missing or not an       *)
(* integer, "pieces" is missing or not a byte string, or the length of     *)
(* "pieces" is not a multiple of 20.                                       *)
(***************************************************************************)
PiecesNotWhole(d) ==
    HasKind(d, Key_pieces, BT_STRING)
    /\ ValueOf(d, Key_pieces).string.size % 20 # 0

Unfit(d) ==
    \/ ~HasKind(d, Key_length, BT_INTEGER)
    \/ ~HasKind(d, Key_name, BT_STRING)
    \/ ~HasKind(d, Key_piece_length, BT_INTEGER)
    \/ ~HasKind(d, Key_pieces, BT_STRING)
    \/ PiecesNotWhole(d)

C8_BuilderFailureModes ==
    phase = "built" /\ made.given /\ Unfit(made.info_dict) =>
        made.null /\ made.fault = F_NONE

\* the builder was given a dictionary with every key of the right kind and
\* a pieces string of 21 bytes, and returned NULL
C8_Witness ==
    /\ phase = "built" /\ made.given
    /\ HasKind(made.info_dict, Key_length, BT_INTEGER)
    /\ HasKind(made.info_dict, Key_name, BT_STRING)
    /\ HasKind(made.info_dict, Key_piece_length, BT_INTEGER)
    /\ PiecesNotWhole(made.info_dict)
    /\ ValueOf(made.info_dict, Key_pieces).string.size = 21
    /\ made.null

(***************************************************************************)
(* C9.  Tracker URL: the URL that get_tracker_response requests is the     *)
(* announce URL followed by exactly these query parameters in exactly      *)
(* this order: info_hash (the percent-encoded infohash), peer_id,          *)
(* port=6881, uploaded=0, downloaded=0, compact=1, left=<decimal           *)
(* total_size>, total_size being the integer under "length".               *)
(* The code does not look at the kind of "length": for a "length" that is  *)
(* a byte string it asks with left=<the address of the string>.            *)
(***************************************************************************)
Unreserved == (48..57) \cup (65..90) \cup (97..122) \cup {45, 46, 95, 126}

HexDigits == <<48, 49, 50, 51, 52, 53, 54, 55, 56, 57, 65, 66, 67, 68, 69, 70>>

RECURSIVE PercentEncoded(_)
PercentEncoded(bytes) ==
    IF bytes = <<>> THEN <<>>
    ELSE (IF Head(bytes) \in Unreserved
          THEN <<Head(bytes)>>
          ELSE <<37, HexDigits[(Head(bytes) \div 16) + 1],
                     HexDigits[(Head(bytes) % 16) + 1]>>)
         \o PercentEncoded(Tail(bytes))

RECURSIVE DecimalOf(_)
DecimalOf(n) ==
    IF n < 0 THEN <<45>> \o DecimalOf(0 - n)
    ELSE IF n < 10 THEN <<48 + n>>
    ELSE DecimalOf(n \div 10) \o <<48 + (n % 10)>>

\* ?info_hash=
Text_info_hash == <<63, 105, 110, 102, 111, 95, 104, 97, 115, 104, 61>>
\* &peer_id=00112233445566778899&port=6881&uploaded=0&downloaded=0&compact=1&left=
Text_fixed ==
    <<38, 112, 101, 101, 114, 95, 105, 100, 61,
      48, 48, 49, 49, 50, 50, 51, 51, 52, 52, 53, 53, 54, 54, 55, 55, 56, 56, 57, 57,
      38, 112, 111, 114, 116, 61, 54, 56, 56, 49,
      38, 117, 112, 108, 111, 97, 100, 101, 100, 61, 48,
      38, 100, 111, 119, 110, 108, 111, 97, 100, 101, 100, 61, 48,
      38, 99, 111, 109, 112, 97, 99, 116, 61, 49,
      38, 108, 101, 102, 116, 61>>

Asked == phase = "asked" /\ request.requested

TotalSizeKnown ==
    /\ HasKind(result.c, Key_info, BT_DICTIONARY)
    /\ HasKind(ValueOf(result.c, Key_info), Key_length, BT_INTEGER)

ExpectedUrl ==
    ValueOf(result.c, Key_announce).string.chars
    \o Text_info_hash \o PercentEncoded(digest)
    \o Text_fixed
    \o DecimalOf(ValueOf(ValueOf(result.c, Key_info), Key_length).integer)

C9_TrackerUrl == Asked => TotalSizeKnown /\ request.url_str = ExpectedUrl

(***************************************************************************)
(* C10.  URL builder: after url_new(base) and n >= 1 successful            *)
(* url_append_query_param calls the buffer is base, then '?' before the    *)
(* first key=value pair and '&' before each later one, the pairs in call   *)
(* order; the flag is false before the first append and true after every   *)
(* append.                                                                 *)
(***************************************************************************)
RECURSIVE Query(_, _)
Query(pairs, k) ==
    IF k > Len(pairs) THEN <<>>
    ELSE <<IF k = 1 THEN 63 ELSE 38>> \o pairs[k][1] \o <<61>> \o pairs[k][2]
         \o Query(pairs, k + 1)

UrlReady ==
    phase = "url" /\ ~built.null /\ ~built.hang /\ built.fault = F_NONE
    /\ built.rc = URL_SUCCESS

C10_UrlBuilder ==
    UrlReady =>
        /\ built.url.data.chars = base \o Query(calls, 1)
        /\ built.url.data.size = Len(base) + Len(Query(calls, 1))
        /\ built.url.contains_query = (Len(calls) >= 1)

\* three pairs went into a URL made of a base of several bytes
C10_Witness ==
    /\ UrlReady
    /\ Len(base) > 1
    /\ Len(calls) = 3
    /\ calls[1] # calls[2]
    /\ built.url.contains_query

(***************************************************************************)
(* The tracker's answer, seen from outside handle_data.  Arrived is a step *)
(* in which handle_data took a piece of the body and returned; Whole is    *)
(* the decoding of all the bytes that have arrived, from the first one.    *)
(***************************************************************************)
Arrived ==
    /\ phase = "transfer"
    /\ resp'.fed > resp.fed
    /\ resp'.fault = F_NONE
    /\ ~resp'.hang

Whole == decode_bencode(Env(SubSeq(input, 1, resp'.fed), past', za, un), Blank)

SamePeers ==
    /\ resp'.mem.peers = resp.mem.peers
    /\ resp'.mem.peers_count = resp.mem.peers_count
    /\ resp'.mem.peers_set = resp.mem.peers_set

SameParsed == resp'.mem.interval = resp.mem.interval /\ SamePeers

(***************************************************************************)
(* C11.  Tracker response feed: each time body bytes arrive, handle_data   *)
(* appends them to the accumulated buffer and decodes the whole buffer     *)
(* from its first byte; on Partial it returns the size of the piece and    *)
(* leaves the response as it was, on Success it returns the size of the    *)
(* piece after handle_tracker_response took the decoded value, and on      *)
(* Syntax, OutOfMemory or a failed append it returns 0.                    *)
(***************************************************************************)
C11_TrackerFeed ==
    [][Arrived =>
         IF ~resp'.appended
         THEN resp'.ret = 0
         ELSE \A w \in {Whole} :
              /\ resp'.mem.data.chars = SubSeq(input, 1, resp'.fed)
              /\ resp'.status = w.p.state
              /\ resp'.status \in {PARSER_ERR_SYNTAX, PARSER_ERR_MEMORY}
                    => resp'.ret = 0 /\ SameParsed /\ resp'.mem.ok = resp.mem.ok
              /\ resp'.status = PARSER_ERR_PARTIAL
                    => /\ resp'.ret = resp'.fed - resp.fed
                       /\ SameParsed
                       /\ resp'.mem.ok = resp.mem.ok
              /\ resp'.status = PARSER_SUCCESS
                    => /\ resp'.ret = resp'.fed - resp.fed
                       /\ resp'.mem =
                            handle_tracker_response(
                                w.c, [resp.mem EXCEPT !.data = resp'.mem.data])
    ]_vars

\* a body that came in more than one piece was decoded with Success and
\* gave one peer
C11_Witness ==
    /\ phase = "transfer"
    /\ resp.appended
    /\ resp.fault = F_NONE
    /\ resp.status = PARSER_SUCCESS
    /\ resp.ret > 0
    /\ resp.ret < resp.fed
    /\ resp.fed = Len(input)
    /\ resp.mem.ok
    /\ resp.mem.peers_count = 1

(***************************************************************************)
(* C12.  Tracker response parsing: when the decoded dictionary holds       *)
(* "failure reason" the response is marked failed and neither interval nor *)
(* peers is written, whatever else the dictionary holds; when it does not, *)
(* the response is ok only if "interval" is there as an integer and        *)
(* "peers" is there as a byte string.                                      *)
(***************************************************************************)
C12_TrackerResponse ==
    [][\A w \in {Whole} :
        (/\ Arrived
         /\ resp'.appended
         /\ resp'.status = PARSER_SUCCESS
         /\ w.c.type = BT_DICTIONARY)
        => IF HasKey(w.c, Key_failure_reason)
           THEN ~resp'.mem.ok /\ SameParsed
           ELSE resp'.mem.ok
                  => /\ HasKind(w.c, Key_interval, BT_INTEGER)
                     /\ HasKind(w.c, Key_peers, BT_STRING)
    ]_vars

\* a whole answer with a failure reason, an integer interval and a peers
\* string was marked failed, in storage that read as ok before
C12_Witness ==
    /\ phase = "transfer"
    /\ un = UN_JUNK
    /\ resp.appended
    /\ resp.fault = F_NONE
    /\ resp.status = PARSER_SUCCESS
    /\ resp.fed = Len(input)
    /\ LET d == decode_bencode(Env(input, past, za, un), Blank).c
       IN  /\ HasKey(d, Key_failure_reason)
           /\ HasKind(d, Key_interval, BT_INTEGER)
           /\ HasKind(d, Key_peers, BT_STRING)
    /\ ~resp.mem.ok
    /\ ~resp.mem.peers_set

(***************************************************************************)
(* C13.  Compact peer list: an answer without a failure reason, with an    *)
(* integer interval and a peers string of 6k bytes gives exactly k peers   *)
(* in the order of the input, peer j with the dotted-decimal text of bytes *)
(* 6j..6j+3 as its ip and 256 * byte 6j+4 + byte 6j+5 as its port; a peers *)
(* string of another length gives a failed response and no peers.          *)
(***************************************************************************)
Dotted(raw, at) ==
    DecimalOf(raw[at + 1]) \o <<46>> \o DecimalOf(raw[at + 2]) \o <<46>>
    \o DecimalOf(raw[at + 3]) \o <<46>> \o DecimalOf(raw[at + 4])

C13_CompactPeers ==
    [][\A w \in {Whole} :
        (/\ Arrived
         /\ resp'.appended
         /\ resp'.status = PARSER_SUCCESS
         /\ ~HasKey(w.c, Key_failure_reason)
         /\ HasKind(w.c, Key_interval, BT_INTEGER)
         /\ HasKind(w.c, Key_peers, BT_STRING))
        => \A raw \in {ValueOf(w.c, Key_peers).string.chars} :
             IF Len(raw) % 6 = 0
             THEN /\ resp'.mem.ok
                  /\ resp'.mem.peers_count = Len(raw) \div 6
                  /\ Len(resp'.mem.peers) = Len(raw) \div 6
                  /\ \A j \in 1..Len(resp'.mem.peers) :
                       \A peer \in {resp'.mem.peers[j]} :
                          /\ SubSeq(peer.ip.chars, 1, peer.ip.size)
                               = Dotted(raw, 6 * (j - 1))
                          /\ peer.port = 256 * raw[6 * (j - 1) + 5]
                                         + raw[6 * (j - 1) + 6]
             ELSE ~resp'.mem.ok /\ SamePeers
    ]_vars

(***************************************************************************)
(* The handshake, seen from outside.  Frame is the frame the             *)
(* specification asks for; Answered is a handshake whose read came to its  *)
(* end with 68 bytes.                                                      *)
(***************************************************************************)
Shaken == phase = "handshake"

Frame ==
    <<19, 66, 105, 116, 84, 111, 114, 114, 101, 110, 116, 32,
      112, 114, 111, 116, 111, 99, 111, 108, 0, 0, 0, 0, 0, 0, 0, 0>>
    \o wire.info_hash \o wire.peer_id

Answered == Shaken /\ wire.shake.received /\ ~wire.shake.hang /\ wire.shake.read.rc = 68

NoRecvError == \A k \in 1..Len(wire.net.recvs) : wire.net.recvs[k] >= 0

(***************************************************************************)
(* C14.  Handshake validation: of the 68 bytes received, handshake returns *)
(* a record exactly when pstrlen is 19 and proto_name is "BitTorrent       *)
(* protocol" byte for byte; when either differs it returns failure.        *)
(***************************************************************************)
C14_HandshakeValidation ==
    Answered =>
       (~wire.shake.null
          <=> /\ wire.net.stream[1] = 19
              /\ SubSeq(wire.net.stream, 2, 20) = SubSeq(Frame, 2, 20))

(***************************************************************************)
(* C15.  Handshake send: handshake goes on to receive only when all 68     *)
(* bytes of its frame went out; a send of fewer bytes makes it return      *)
(* failure without receiving.                                              *)
(***************************************************************************)
C15_HandshakeSend ==
    Shaken =>
       /\ wire.shake.received => Len(wire.shake.sent) = 68
       /\ wire.net.send < 68 => wire.shake.null /\ ~wire.shake.received

(***************************************************************************)
(* C16.  read_socket_exact(socket, buffer, 68) always returns: 68 with     *)
(* the first 68 bytes of the stream in buffer when the peer sends that     *)
(* many and no recv fails, however short the reads; an error when a recv   *)
(* fails; an error when the stream ends before 68 bytes.                   *)
(***************************************************************************)
C16_ReadSocketExact ==
    (Shaken /\ wire.shake.received) =>
       /\ ~wire.shake.read.hang
       /\ \/ wire.shake.read.rc < 0
          \/ /\ wire.shake.read.rc = 68
             /\ wire.shake.read.got = SubSeq(wire.net.stream, 1, 68)
       /\ (NoRecvError /\ Len(wire.net.stream) >= 68) => wire.shake.read.rc = 68
       /\ (NoRecvError /\ Len(wire.net.stream) < 68) => wire.shake.read.rc < 0

(***************************************************************************)
(* C17.  Handshake frame and echo: what handshake sends is pstrlen 19,     *)
(* "BitTorrent protocol", 8 zero bytes, the info_hash argument and the     *)
(* peer_id argument, in that order; and when the whole frame went out, the *)
(* peer sends it back and no recv fails, the record returned holds the     *)
(* info_hash and the peer_id of the arguments.                             *)
(***************************************************************************)
C17_HandshakeFrame ==
    Shaken =>
       /\ wire.net.send >= 0 => wire.shake.sent = SubSeq(Frame, 1, wire.net.send)
       /\ (wire.net.send = 68 /\ wire.net.stream = Frame /\ NoRecvError)
             => /\ ~wire.shake.null
                /\ wire.shake.header.info_hash = wire.info_hash
                /\ wire.shake.header.peer_id = wire.peer_id

\* the frame went out whole and came back in two short reads
C17_Witness ==
    /\ Shaken
    /\ wire.net.send = 68
    /\ wire.shake.sent = Frame
    /\ wire.net.stream = Frame
    /\ wire.net.recvs = <<20, 48>>
    /\ ~wire.shake.null
    /\ wire.shake.header.info_hash = wire.info_hash

(***************************************************************************)
(* C18.  Address parsing: a connection is attempted only for an address    *)
(* with a colon, a non-empty ip part before it and a port in 1..65535      *)
(* after it; an address with an empty ip part or a port outside 1..65535   *)
(* gives failure and no connection is attempted.                           *)
(***************************************************************************)
IpPart ==
    IF \E k \in 1..Len(input) : input[k] = 58
    THEN SubSeq(input, 1,
                (CHOOSE k \in 1..Len(input) :
                    input[k] = 58 /\ \A j \in 1..(k - 1) : input[j] # 58) - 1)
    ELSE input

PortPart == SubSeq(input, Len(IpPart) + 2, Len(input))

RECURSIVE PortNumber(_, _)
PortNumber(text, k) ==
    IF k = 0 THEN 0 ELSE 10 * PortNumber(text, k - 1) + (text[k] - 48)

PortInRange ==
    /\ PortPart # <<>>
    /\ \A k \in 1..Len(PortPart) : PortPart[k] \in 48..57
    /\ PortNumber(PortPart, Len(PortPart)) \in 1..65535

C18_AddressParsing ==
    (phase \in {"connection", "handshake"} /\ wire.conn.fault = F_NONE) =>
       /\ wire.conn.attempted
             => /\ Len(IpPart) < Len(input)
                /\ IpPart # <<>>
                /\ PortInRange
       /\ (IpPart = <<>> \/ ~PortInRange)
             => wire.conn.sock < 0 /\ ~wire.conn.attempted

(***************************************************************************)
(* C19.  Byte buffer compare: bstring_cmp(a, b) is negative exactly when   *)
(* the bytes of a come before those of b in byte-wise lexicographic order  *)
(* (a proper prefix coming before the longer buffer), positive exactly     *)
(* when they come after, and 0 exactly when the contents are equal.        *)
(***************************************************************************)
C19_BufferCompare ==
    phase = "compared" =>
       /\ buf.cmp < 0 <=> LexLess(buf.bstr.chars, buf.other)
       /\ buf.cmp > 0 <=> LexLess(buf.other, buf.bstr.chars)
       /\ buf.cmp = 0 <=> buf.bstr.chars = buf.other

(***************************************************************************)
(* C20.  Byte buffer invariant: after bstring_new and any appends that     *)
(* returned success, size <= capacity and the bytes held are the bytes     *)
(* appended, in order; and an append that returns success leaves the       *)
(* capacity as it was or multiplied by a power of two.                     *)
(***************************************************************************)
RECURSIVE PowerOfTwoTimes(_, _)
PowerOfTwoTimes(a, b) == b = a \/ (a > 0 /\ b > a /\ PowerOfTwoTimes(2 * a, b))

Sound(b) == b.rc = BSTRING_SUCCESS /\ ~b.hang /\ b.fault = F_NONE

C20_BufferInvariant ==
    [][(phase' = "buffer" /\ Sound(buf'))
       => /\ buf'.bstr.size <= buf'.bstr.capacity
          /\ buf'.bstr.size = Len(buf'.log)
          /\ buf'.bstr.chars = buf'.log
          /\ phase = "buffer"
                => /\ buf'.bstr.capacity >= buf.bstr.capacity
                   /\ PowerOfTwoTimes(buf.bstr.capacity, buf'.bstr.capacity)
    ]_vars

\* three appends that succeeded and grew a buffer of capacity 3 to 12
C20_Witness ==
    /\ phase = "buffer"
    /\ Sound(buf)
    /\ buf.appends = 3
    /\ buf.bstr.capacity = 12
    /\ buf.bstr.size > 6
    /\ buf.bstr.chars = buf.log

(***************************************************************************)
(* C23.  Decoder bounds: a decode_bencode call on an input of length n     *)
(* reads no byte at index n or after it: the byte under the cursor is      *)
(* read only while the cursor is before the end of the input.              *)
(***************************************************************************)
C23_DecoderBounds ==
    phase \in {"decoded", "encoded", "redecoded"} => ~result.p.overread

(***************************************************************************)
(* C24.  Decoder allocation safety: when decode_bencode returns Partial,   *)
(* Syntax or OutOfMemory, its cleanup released nothing twice and released  *)
(* nothing through a payload that was never constructed.                   *)
(***************************************************************************)
C24_DecoderAllocationSafety ==
    (phase = "decoded" /\ Status # PARSER_SUCCESS) => result.p.fault = F_NONE

(***************************************************************************)
(* C30.  Infohash buffer bound: the bytes hash_bencoded has encode_bencode *)
(* store into its temporary buffer, the terminating zero byte among them,  *)
(* all lie within the encoded_length bytes allocated for it.               *)
(***************************************************************************)
C30_InfohashBuffer ==
    (phase = "asked" /\ request.hashed.ran)
       => request.hashed.written <= request.hashed.allocated

(***************************************************************************)
(* C26.  Empty pieces string: when the info dictionary has every key of    *)
(* the right kind and its "pieces" byte string is empty, the metainfo      *)
(* builder returns failure and initialises no piece and no block.          *)
(***************************************************************************)
C26_EmptyPieces ==
    (/\ phase = "built"
     /\ made.given
     /\ ~Unfit(made.info_dict)
     /\ ValueOf(made.info_dict, Key_pieces).string.size = 0)
    => /\ made.null
       /\ made.fault = F_NONE
       /\ made.file.pieces = <<>>

(***************************************************************************)
(* C27.  Fresh blocks: right after a metainfo object is built every block  *)
(* of every piece has no data (a null pointer) and every piece has         *)
(* blocks_received = 0, and torrent_file_free on the object releases only  *)
(* storage that was allocated.                                             *)
(***************************************************************************)
C27_FreshBlocks ==
    /\ Built =>
          \A i \in 1..Len(made.file.pieces) :
             /\ made.file.pieces[i].blocks_received = 0
             /\ \A b \in 1..Len(made.file.pieces[i].blocks) :
                   made.file.pieces[i].blocks[b].data = "null"
    /\ phase = "freed" => made.fault = F_NONE

(***************************************************************************)
(* C29.  Socket ownership: when tcp_connect_inet_cstr returns, the only    *)
(* socket it opened that is not closed is the connected one it returns:    *)
(* after a failure none is open, after success exactly the returned one.   *)
(***************************************************************************)
C29_SocketOwnership ==
    (phase \in {"connection", "handshake"} /\ wire.conn.fault = F_NONE) =>
       wire.conn.open = IF wire.conn.sock >= 0 THEN {wire.conn.sock} ELSE {}

(***************************************************************************)
(* C25.  Truncated or malformed tracker response: when the transfer ends   *)
(* and no arrival decoded to a dictionary (every decode gave Partial, or   *)
(* the value decoded is not a dictionary), get_tracker_response returns    *)
(* NULL; it returns a response only when parsing set ok to true; and ok is *)
(* never read before it was assigned.                                      *)
(***************************************************************************)
C25_TruncatedResponse ==
    phase = "answered" =>
       /\ ~resp.mem.ok_set => resp.out.null
       /\ ~resp.out.null => resp.mem.ok_set /\ resp.mem.ok
       /\ ~resp.out.read_unset

(***************************************************************************)
(* C28.  Tracker query cleanup: when get_tracker_response returns NULL     *)
(* after the transfer, every allocation of the call (URL object, escaped   *)
(* hash, URL text, response aggregator and its buffer, peer list) has      *)
(* been released.                                                          *)
(***************************************************************************)
C28_TrackerCleanup ==
    (phase = "answered" /\ resp.out.null) => resp.out.live = {}

(***************************************************************************)
(* C21.  CLI exit code: a run of main in which a step failed (usage, an    *)
(* unreadable or empty file, a decode failure, a metainfo key missing or   *)
(* of the wrong kind, a tracker query, connect or handshake that failed)   *)
(* ends with main returning 1, and a run that ends with 0 is one in which  *)
(* no step failed.                                                         *)
(***************************************************************************)
C21_ExitCode ==
    phase \in {"exited", "aborted"} =>
       (cli.failed <=> (phase = "exited" /\ cli.exit = 1))

(***************************************************************************)
(* C22.  Ordering: in the trace of a run every connection to a peer comes  *)
(* after a tracker query of that run, and the first bytes sent on a        *)
(* connection are the bytes of the 68-byte handshake, as many of them as   *)
(* send took.                                                              *)
(***************************************************************************)
HandshakeFrame ==
    header_bytes([pstrlen |-> 19, proto_name |-> Lit_protocol,
                  reserved |-> [k \in 1..8 |-> 0],
                  info_hash |-> digest, peer_id |-> Lit_client_id])

TrackerFirst ==
    \A k \in 1..Len(cli.trace) :
       cli.trace[k].op = "connect" =>
          \E j \in 1..(k - 1) : cli.trace[j].op = "tracker"

HandshakeFirst ==
    \A k \in 1..Len(cli.trace) :
       (cli.trace[k].op = "send"
        /\ \A j \in 1..(k - 1) : cli.trace[j].op # "send") =>
          cli.trace[k].bytes = SubSeq(HandshakeFrame, 1, Len(cli.trace[k].bytes))

C22_Ordering == TrackerFirst /\ HandshakeFirst

=============================================================================
